---- MODULE Spec2Model ----
(***************************************************************************)
(* Verification model of the kala simulation engine: the agent / memory /  *)
(* update-rule state machine (kala.models.memory, kala.utils.wrappers),    *)
(* and the game loop with its shock schedule (kala.models.game).           *)
(*                                                                         *)
(* Numbers.  Payoffs are fixed-point integers, PayoffOne standing for 1.0. *)
(* A rule fraction frac is the rational fracNum / FracDen.                 *)
(***************************************************************************)
EXTENDS Integers, Sequences, FiniteSets, TLC

\* ------------------------------------------------------------------ bounds
\* longest sequence of update calls made on the single agent of SpecAgent
MaxUpdates == 4
\* largest memory_length passed to init_saver_agent
MaxMemoryLength == 2
\* rule fractions are k / FracDen, k in 0..FracDen
FracDen == 2
\* administrative flips (flip shocks) applied to the single agent of SpecAgent
MaxFlips == 1

\* largest step count of a GamePlan
MaxSteps == 2
\* largest number of shocks in a GamePlan, over all its time entries
MaxShocks == 2
\* agents that can be put on a SimpleGraph
MaxAgents == 3
\* positions of the topology in SpecMatch: 0..MatchPositions-1
MatchPositions == 4
\* homophily values are k / HomDen, k in 0..HomDen
HomDen == 1

\* --------------------------------------------------------- program constants
\* wrappers.py:69  memory_length = memory_length or 10
DefaultMemoryLength == 10
\* fixed-point representation of the payoff 1.0
PayoffOne == 200

\* strategies.py:68-69  default differentials 0.1 and 0.15, in PayoffOne units
DifferentialInefficient == 20
DifferentialEfficient == 30
\* an empty position of the placement
NoAgent == 0

NoRule == [kind |-> "None"]
NoHomophily == [set |-> FALSE]
NoCall == [who |-> "nobody"]

VARIABLES
    \* --- SpecAgent: one agent driven by arbitrary update calls
    ag,         \* the agent: is_saver, score, memory, maxlen, rule
    req,        \* the memory_length argument the agent was created with
    paid,       \* ghost: sum of the payoffs passed to update
    nUpd,       \* ghost: number of update calls made
    nFlips,     \* ghost: number of administrative flips applied
    allLost,    \* ghost: every update call so far had lost_match = TRUE
    flippedAt,  \* ghost: indices (1-based) of the update calls that changed is_saver
    hist,       \* ghost: items appended since the last flip made by an update, in arrival order
    last        \* ghost: the last update call: its arguments and the agent before it

VARIABLES
    \* --- the game: state, agents and the position of the code running on them
    state,      \* the GameState: ref (object identity), graph, placements, agents, payoff_strategy
    agents,     \* the agent objects, by id: is_saver, score, memory, ...
    pc,         \* where the running code stands
    matches,    \* the list select_matches returned
    updates,    \* the list of (agent, payoff, lost_match) built from the matches
    plan,       \* the GamePlan: steps, shocks (time -> list of shocks)
    time,       \* play_game's loop variable
    shocks,     \* play_game's local list: game_plan.shocks.get(time, [])
    shockIdx,   \* index of the next shock of that list
    nextRef,    \* ghost: the identity the next newly built GameState object gets
    log         \* ghost: what play_game has done so far, in order

VARIABLES
    \* --- the library objects exercised on their own
    rng,        \* the random generator: the draws it will hand out, and how many it has
    sg,         \* a SimpleGraph: _nodes (agent or None per position) and the edges of _graph
    placement,  \* an AgentPlacement: position -> agent, NoAgent where empty
    ret         \* the last call made on them: its name, arguments, outcome and the object before it

agentVars == <<ag, req, paid, nUpd, nFlips, allLost, flippedAt, hist, last>>
gameVars == <<state, agents, pc, matches, updates>>
loopVars == <<plan, time, shocks, shockIdx, nextRef, log>>

libVars == <<rng, sg, placement, ret>>

vars == <<agentVars, gameVars, loopVars, libVars>>

\* the variables of the specifications that are not running
AgentIdle ==
    /\ ag = "idle" /\ req = 0 /\ paid = 0 /\ nUpd = 0 /\ nFlips = 0
    /\ allLost = TRUE /\ flippedAt = {} /\ hist = <<>> /\ last = NoCall

LoopIdle ==
    /\ plan = "idle" /\ time = 0 /\ shocks = <<>> /\ shockIdx = 0 /\ nextRef = 0 /\ log = <<>>

GameIdle ==
    /\ state = "idle" /\ agents = <<>> /\ pc = "idle" /\ matches = <<>> /\ updates = <<>>
    /\ LoopIdle

LibIdle ==
    /\ rng = "idle" /\ sg = "idle" /\ placement = "idle" /\ ret = NoCall

\* ------------------------------------------------------------ memory.py
\* Payoffs the callers of update pass in SpecAgent (a saver's payoff against a
\* non-saver, and a saver's payoff against a saver, with the default differentials).
UpdatePayoffs == {(PayoffOne * 9) \div 10, (PayoffOne * 23) \div 20}

\* MemoryItem: payoff, score, match_lost, time, properties
MemoryItem(payoff, score, match_lost, tm, is_saver) ==
    [payoff |-> payoff, score |-> score, match_lost |-> match_lost,
     time |-> tm, properties |-> [is_saver |-> is_saver]]

\* collections.deque(maxlen=...).append: a full deque drops its leftmost item
DequeAppendNoEvict(d, x, maxlen) == Append(d, x)

DequeAppend(d, x, maxlen) ==
    LET s == Append(d, x)
    IN  IF Len(s) > maxlen THEN SubSeq(s, Len(s) - maxlen + 1, Len(s)) ELSE s

\* losses = sum(item.match_lost for item in memory)
Losses(memory) == Cardinality({i \in 1..Len(memory) : memory[i].match_lost})

\* (self.frac == 0 and losses > 0) or losses >= (memory_length * self.frac)
ShouldFlip(fracNum, losses, memory_length) ==
    \/ (fracNum = 0 /\ losses > 0)
    \/ losses * FracDen >= memory_length * fracNum

\* SaverFlipAfterFractionLost.update(properties, memory), on the agent that owns both
RuleUpdateNoLengthGuard(a) ==
    IF ShouldFlip(a.rule.fracNum, Losses(a.memory), a.maxlen)
    THEN [a EXCEPT !.is_saver = ~@, !.memory = <<>>]
    ELSE a

RuleUpdateNoClear(a) ==
    IF Len(a.memory) # a.maxlen
    THEN a
    ELSE IF ShouldFlip(a.rule.fracNum, Losses(a.memory), a.maxlen)
         THEN [a EXCEPT !.is_saver = ~@]
         ELSE a

RuleUpdate(a) ==
    IF Len(a.memory) # a.maxlen
    THEN a
    ELSE IF ShouldFlip(a.rule.fracNum, Losses(a.memory), a.maxlen)
         THEN [a EXCEPT !.is_saver = ~@, !.memory = <<>>]
         ELSE a

\* ------------------------------------------------------------ wrappers.py
\* init_saver_agent(is_saver, memory_length=..., update_rule=...)
init_saver_agent(is_saver, min_specialization, homophily, memory_length, update_rule) ==
    LET ml == IF memory_length = 0 THEN DefaultMemoryLength ELSE memory_length
    IN  [is_saver |-> is_saver, min_specialization |-> min_specialization,
         homophily |-> homophily, score |-> 0, memory |-> <<>>,
         maxlen |-> ml, rule |-> update_rule]

\* the update rules an agent can be given: none, or SaverFlipAfterFractionLost(frac)
Rules ==
    {NoRule} \cup {[kind |-> "SaverFlipAfterFractionLost", fracNum |-> k] : k \in 0..FracDen}

\* ------------------------------------------------------------ agent update
\* SaverAgent.update(payoff, lost_match, time)
AgentUpdateNoScore(a, payoff, lost_match, tm) ==
    LET a1 == [a EXCEPT !.memory = DequeAppend(@,
                    MemoryItem(payoff, a.score, lost_match, tm, a.is_saver), a.maxlen)]
    IN  IF a1.rule.kind = "None" THEN a1 ELSE RuleUpdate(a1)

AgentUpdate(a, payoff, lost_match, tm) ==
    LET score == a.score + payoff
        item  == MemoryItem(payoff, score, lost_match, tm, a.is_saver)
        a1    == [a EXCEPT !.score = score, !.memory = DequeAppend(@, item, a.maxlen)]
    IN  IF a1.rule.kind = "None" THEN a1 ELSE RuleUpdate(a1)

\* ---------------------------------------------------------------- SpecAgent
InitAgent ==
    /\ req \in 0..MaxMemoryLength
    /\ \E s \in BOOLEAN, r \in Rules : ag = init_saver_agent(s, 0, NoHomophily, req, r)
    /\ paid = 0
    /\ nUpd = 0
    /\ nFlips = 0
    /\ allLost = TRUE
    /\ flippedAt = {}
    /\ hist = <<>>
    /\ last = NoCall
    /\ GameIdle
    /\ LibIdle

\* one call agent.update(payoff=p, lost_match=l, time=nUpd)
Update ==
    /\ nUpd < MaxUpdates
    /\ \E p \in UpdatePayoffs, l \in BOOLEAN :
          LET new     == AgentUpdate(ag, p, l, nUpd)
              item    == MemoryItem(p, ag.score + p, l, nUpd, ag.is_saver)
          IN  /\ ag' = new
              /\ paid' = paid + p
              /\ allLost' = (allLost /\ l)
              /\ flippedAt' = IF new.is_saver # ag.is_saver
                              THEN flippedAt \cup {nUpd + 1} ELSE flippedAt
              /\ hist' = IF new.is_saver # ag.is_saver THEN <<>> ELSE Append(hist, item)
              /\ last' = [who |-> "agent", payoff |-> p, lost_match |-> l,
                          time |-> nUpd, before |-> ag]
    /\ nUpd' = nUpd + 1
    /\ UNCHANGED <<req, nFlips>>
    /\ UNCHANGED <<gameVars, loopVars, libVars>>

\* a flip shock acting on the agent: properties.is_saver = not properties.is_saver
AdminFlipThroughItems ==
    /\ nFlips < MaxFlips
    /\ ag' = [ag EXCEPT !.is_saver = ~@,
                        !.memory = [i \in 1..Len(@) |->
                                       [@[i] EXCEPT !.properties.is_saver = ~@]]]
    /\ nFlips' = nFlips + 1
    /\ last' = NoCall
    /\ UNCHANGED <<req, paid, nUpd, allLost, flippedAt, hist>>
    /\ UNCHANGED <<gameVars, loopVars, libVars>>

AdminFlip ==
    /\ nFlips < MaxFlips
    /\ ag' = [ag EXCEPT !.is_saver = ~@]
    /\ nFlips' = nFlips + 1
    /\ last' = NoCall
    /\ UNCHANGED <<req, paid, nUpd, allLost, flippedAt, hist>>
    /\ UNCHANGED <<gameVars, loopVars, libVars>>

NextAgent == Update \/ AdminFlip

SpecAgent == InitAgent /\ [][NextAgent]_vars

\* ------------------------------------------------------- claims on SpecAgent
IsFractionRule(a) == a.rule.kind = "SaverFlipAfterFractionLost"

\* the last min(n, Len(s)) elements of s
LastItems(s, n) == IF Len(s) > n THEN SubSeq(s, Len(s) - n + 1, Len(s)) ELSE s

\* the window the rule of the last update call looked at: the memory right after the append
LastWindow ==
    LastItems(Append(last.before.memory,
                     MemoryItem(last.payoff, last.before.score + last.payoff,
                                last.lost_match, last.time, last.before.is_saver)),
              last.before.maxlen)

LastWasFull == Len(LastWindow) = last.before.maxlen

LastFlipped == ag.is_saver # last.before.is_saver

\* C1: the agent's score equals the sum of all payoffs passed to its update calls,
\* under any interleaving of updates and flip shocks; it is 0 before the first call.
C1_ScoreIsSumOfPayoffs ==
    /\ ag.score = paid
    /\ (nUpd = 0 => ag.score = 0)

C1_Witness == nUpd >= 3 /\ nFlips >= 1 /\ flippedAt # {} /\ ag.score = paid /\ paid > PayoffOne

\* C2: the memory never holds more items than its capacity, and it holds the last
\* `capacity` items appended since the last flip, in arrival order (a full memory
\* evicts exactly its oldest item).
C2_MemoryBoundedFifo ==
    /\ Len(ag.memory) <= ag.maxlen
    /\ ag.memory = LastItems(hist, ag.maxlen)

C2_Witness ==
    /\ Len(hist) = ag.maxlen + 1
    /\ Len(ag.memory) = ag.maxlen
    /\ ag.memory[1] = hist[2]
    /\ ag.memory[ag.maxlen] = hist[ag.maxlen + 1]

C4_FlipIffFractionLost ==
    (last.who = "agent" /\ IsFractionRule(ag) /\ LastWasFull) =>
        (LastFlipped <=>
            IF ag.rule.fracNum > 0
            THEN Losses(LastWindow) * FracDen >= ag.maxlen * ag.rule.fracNum
            ELSE Losses(LastWindow) > 0)

\* C5: an agent with capacity N >= 1 and a loss-triggered rule (frac > 0; frac = 1 is
\* the all-past rule) that has lost every match changed is_saver exactly on its N-th,
\* 2N-th, ... update and on no other.
C5_FlipsEveryNthLoss ==
    (allLost /\ IsFractionRule(ag) /\ ag.rule.fracNum > 0 /\ ag.maxlen >= 1) =>
        flippedAt = {k \in 1..nUpd : k % ag.maxlen = 0}

C5_Witness ==
    /\ allLost
    /\ IsFractionRule(ag)
    /\ ag.rule.fracNum > 0
    /\ ag.maxlen = 2
    /\ nUpd = 4
    /\ flippedAt = {2, 4}

\* C6 (as claimed): an agent created with memory length 0 has capacity 0 and no
\* update call ever changes its is_saver.
C6_ZeroCapacityIsInert ==
    req = 0 => (ag.maxlen = 0 /\ flippedAt = {})

Edge(u, v) == {u, v}

\* graphs over the positions 0..n-1 used to start a run
EmptyGraph(n) == {}
SingleEdge(n) == {Edge(0, 1)}
PathGraph(n) == {Edge(i, i + 1) : i \in 0..n - 2}
StarGraph(n) == {Edge(0, i) : i \in 1..n - 1}
CompleteGraph(n) == {Edge(i, j) : i, j \in 0..n - 1} \ {{i} : i \in 0..n - 1}
StartGraphs(n) == {EmptyGraph(n), SingleEdge(n), PathGraph(n), StarGraph(n), CompleteGraph(n)}

\* graph.neighbors(pos)
NeighboursOrSelf(graph, pos) == {q \in UNION graph : Edge(pos, q) \in graph \/ q = pos}

Neighbours(graph, pos) == {q \in UNION graph : q # pos /\ Edge(pos, q) \in graph}

\* AgentPlacement: positions -> agent id, NoAgent for an empty position
Occupied(placements) == {p \in DOMAIN placements : placements[p] # NoAgent}

\* AgentPlacementNetX.init_bijection(agents, graph): agent i+1 on position i
init_bijection(n) == [p \in 0..n - 1 |-> p + 1]

\* get_neighbours: the agents on the occupied positions adjacent to pos
LiveNeighbours(st, pos) ==
    {st.placements[q] : q \in Neighbours(st.graph, pos) \cap Occupied(st.placements)}

\* homophily weight of neighbour n for agent a: hom if they share is_saver, 1 - hom otherwise
Weight(a, n) ==
    IF agents[a].is_saver = agents[n].is_saver
    THEN agents[a].homophily.num ELSE HomDen - agents[a].homophily.num

\* the neighbours select_random_neighbour can return for the occupant of pos
\* (none when there is no live neighbour or when the weights cannot be normalised)
Eligible(st, pos) ==
    LET a == st.placements[pos]
        neighs == LiveNeighbours(st, pos)
    IN  IF agents[a].homophily.set THEN {n \in neighs : Weight(a, n) > 0} ELSE neighs

\* ============================================================= matching
\* the draws of one select_matches call: k sampled positions d and, for each, the
\* neighbour c picked for its occupant (NoAgent when none can be picked)
ValidDraws(st, k) ==
    {dc \in [1..k -> Occupied(st.placements)] \X [1..k -> (DOMAIN agents) \cup {NoAgent}] :
        \A i \in 1..k :
            IF Eligible(st, dc[1][i]) = {}
            THEN dc[2][i] = NoAgent
            ELSE dc[2][i] \in Eligible(st, dc[1][i])}

RECURSIVE Pairs(_, _, _, _)
Pairs(st, d, c, i) ==
    IF i > Len(d) THEN <<>>
    ELSE (IF c[i] = NoAgent THEN <<>> ELSE << <<st.placements[d[i]], c[i]>> >>)
         \o Pairs(st, d, c, i + 1)

\* every list MatchingStrategy.select_matches(placements, graph) can return
SelectMatchesSamplesAll(st) ==
    LET k == Cardinality(Occupied(st.placements))
    IN  {Pairs(st, dc[1], dc[2], 1) : dc \in ValidDraws(st, k)}

select_matches(st) ==
    LET k == Cardinality(Occupied(st.placements)) \div 2
    IN  {Pairs(st, dc[1], dc[2], 1) : dc \in ValidDraws(st, k)}

\* ============================================================== payoffs
\* the multiplicative noise draws, in halves (1 is 0.5, 4 is 2.0)
Draws == {1, 4}

\* CooperationStrategy.__init__: the payoff matrix, keyed by the is_saver values
\* of the pair (TRUE for "saver", FALSE for "non-saver")
payoff_strategy(stochastic, differential_inefficient, differential_efficient) ==
    LET payoff_ss == PayoffOne + differential_efficient
        payoff_sn == PayoffOne - differential_inefficient
    IN  [stochastic |-> stochastic,
         payoff_matrix |->
            [k \in BOOLEAN \X BOOLEAN |->
                IF k[1] /\ k[2] THEN <<payoff_ss, payoff_ss>>
                ELSE IF k[1] THEN <<payoff_sn, PayoffOne>>
                ELSE IF k[2] THEN <<PayoffOne, payoff_sn>>
                ELSE <<PayoffOne, PayoffOne>>]]

\* payoff_matrix[(encoding of a, encoding of b)]
PayoffMatrixMirrored(ps, sa, sb) == ps.payoff_matrix[<<sb, sa>>]

payoff_matrix(ps, sa, sb) == ps.payoff_matrix[<<sa, sb>>]

\* calculate_payoff(a, b) with the noise draw `draw`
CalculatePayoffNoiseOnAll(ps, a, b, draw) ==
    LET base == payoff_matrix(ps, agents[a].is_saver, agents[b].is_saver)
        pa == base[1] + agents[a].min_specialization
        pb == base[2] + agents[b].min_specialization
    IN  IF ps.stochastic
        THEN <<(pa * draw) \div 2, (pb * draw) \div 2>>
        ELSE <<pa, pb>>

calculate_payoff(ps, a, b, draw) ==
    LET base == payoff_matrix(ps, agents[a].is_saver, agents[b].is_saver)
        pa == base[1] + agents[a].min_specialization
        pb == base[2] + agents[b].min_specialization
    IN  IF ps.stochastic
        THEN <<IF agents[a].is_saver THEN (pa * draw) \div 2 ELSE pa,
               IF agents[b].is_saver THEN (pb * draw) \div 2 ELSE pb>>
        ELSE <<pa, pb>>

Max(x, y) == IF x >= y THEN x ELSE y

\* play_match(agents, payoff_strategy): [(agent, payoff, payoff < max_payoff), ...]
PlayMatchLostIfNotAbove(ps, pair, draw) ==
    LET payoffs == calculate_payoff(ps, pair[1], pair[2], draw)
        max_payoff == Max(payoffs[1], payoffs[2])
    IN  << [agent |-> pair[1], payoff |-> payoffs[1], lost_match |-> payoffs[1] <= max_payoff],
           [agent |-> pair[2], payoff |-> payoffs[2], lost_match |-> payoffs[2] <= max_payoff] >>

play_match(ps, pair, draw) ==
    LET payoffs == calculate_payoff(ps, pair[1], pair[2], draw)
        max_payoff == Max(payoffs[1], payoffs[2])
    IN  << [agent |-> pair[1], payoff |-> payoffs[1], lost_match |-> payoffs[1] < max_payoff],
           [agent |-> pair[2], payoff |-> payoffs[2], lost_match |-> payoffs[2] < max_payoff] >>

\* updates = [payoff for agents in matches for payoff in play_match(agents, strategy)]
RECURSIVE Updates(_, _, _, _)
Updates(ps, ms, draws, i) ==
    IF i > Len(ms) THEN <<>>
    ELSE play_match(ps, ms[i], draws[i]) \o Updates(ps, ms, draws, i + 1)

\* ============================================================== SpecMatch
\* One call of select_matches, then play_match on every selected pair, on any
\* start graph, any partial placement, and any is_saver / homophily assignment.
HomophilyValues == {NoHomophily} \cup {[set |-> TRUE, num |-> k] : k \in 0..HomDen}

InitMatch ==
    /\ AgentIdle
    /\ LibIdle
    /\ \E g \in StartGraphs(MatchPositions), occ \in SUBSET (0..MatchPositions - 1),
          sv \in [1..MatchPositions -> BOOLEAN], h \in HomophilyValues, st \in BOOLEAN :
          /\ agents = [a \in 1..MatchPositions |-> init_saver_agent(sv[a], 0, h, 1, NoRule)]
          /\ state = [ref |-> 0,
                      graph |-> g,
                      placements |-> [p \in 0..MatchPositions - 1 |->
                                         IF p \in occ THEN init_bijection(MatchPositions)[p]
                                         ELSE NoAgent],
                      agents |-> {init_bijection(MatchPositions)[p] : p \in occ},
                      payoff_strategy |->
                          payoff_strategy(st, DifferentialInefficient, DifferentialEfficient)]
    /\ pc = "select"
    /\ matches = <<>>
    /\ updates = <<>>
    /\ LoopIdle

SelectMatches ==
    /\ pc = "select"
    /\ matches' \in select_matches(state)
    /\ pc' = "match"
    /\ UNCHANGED <<state, agents, updates>>
    /\ UNCHANGED <<agentVars, loopVars, libVars>>

PlayMatches ==
    /\ pc = "match"
    /\ \E draws \in [1..Len(matches) -> Draws] :
          updates' = Updates(state.payoff_strategy, matches, draws, 1)
    /\ pc' = "matched"
    /\ UNCHANGED <<state, agents, matches>>
    /\ UNCHANGED <<agentVars, loopVars, libVars>>

NextMatch == SelectMatches \/ PlayMatches

SpecMatch == InitMatch /\ [][NextMatch]_vars

\* ------------------------------------------------------- claims on SpecMatch
PositionOf(st, a) == CHOOSE p \in Occupied(st.placements) : st.placements[p] = a

NoHomophilySet == \A a \in state.agents : ~agents[a].homophily.set

\* C9: in every match an agent's lost flag is true iff its payoff is strictly less
\* than the larger payoff of the pair; equal payoffs mark neither agent, and the two
\* agents of a match are never both marked lost.
C9_LostIffBelowMax ==
    pc = "matched" =>
        /\ Len(updates) = 2 * Len(matches)
        /\ \A i \in 1..Len(matches) :
              LET a == updates[2 * i - 1]
                  b == updates[2 * i]
              IN  /\ a.agent = matches[i][1]
                  /\ b.agent = matches[i][2]
                  /\ a.lost_match <=> (a.payoff < b.payoff)
                  /\ b.lost_match <=> (b.payoff < a.payoff)
                  /\ a.payoff = b.payoff => (~a.lost_match /\ ~b.lost_match)
                  /\ ~(a.lost_match /\ b.lost_match)

C9_Witness ==
    /\ pc = "matched"
    /\ Len(updates) = 4
    /\ updates[1].lost_match /\ ~updates[2].lost_match
    /\ updates[3].payoff = updates[4].payoff /\ ~updates[3].lost_match

\* C10: select_matches returns at most floor(N/2) pairs, N the number of occupied
\* positions; each pair is the occupant of an occupied position and a live agent at
\* an adjacent position, never the same agent twice; when every occupied position
\* has an occupied neighbour and no homophily is set it returns exactly floor(N/2)
\* pairs, so two agents on a 2-node, 1-edge graph are always paired with each other.
C10_MatchesAreNeighbourPairs ==
    pc # "select" =>
        LET N == Cardinality(Occupied(state.placements))
        IN  /\ Len(matches) <= N \div 2
            /\ \A i \in 1..Len(matches) :
                  /\ matches[i][1] \in state.agents
                  /\ matches[i][2] \in state.agents
                  /\ matches[i][1] # matches[i][2]
                  /\ Edge(PositionOf(state, matches[i][1]), PositionOf(state, matches[i][2]))
                        \in state.graph
            /\ (NoHomophilySet
                  /\ \A p \in Occupied(state.placements) : LiveNeighbours(state, p) # {})
               => Len(matches) = N \div 2
            /\ (NoHomophilySet /\ Occupied(state.placements) = {0, 1}
                  /\ Edge(0, 1) \in state.graph)
               => (Len(matches) = 1 /\ {matches[1][1], matches[1][2]} = {1, 2})

C10_Witness ==
    /\ pc # "select"
    /\ Cardinality(Occupied(state.placements)) = 4
    /\ Len(matches) = 2
    /\ matches[1][1] = matches[2][1]
    /\ matches[1][2] # matches[2][2]

\* =================================================================== shocks
\* The shocks a plan is built from.  Each is a state transformer apply(state) -> state:
\* RemoveEdge and AddEdge mutate the state's graph in place and return the same
\* object, Copy returns a new GameState object with the same content.
ShockKinds ==
    {[kind |-> "RemoveEdge", u |-> 0, v |-> 1],
     [kind |-> "AddEdge", u |-> 0, v |-> 1],
     [kind |-> "Copy"]}

ShockApply(st, sh, fresh) ==
    CASE sh.kind = "RemoveEdge" -> [st EXCEPT !.graph = @ \ {Edge(sh.u, sh.v)}]
      [] sh.kind = "AddEdge"    -> [st EXCEPT !.graph = @ \cup {Edge(sh.u, sh.v)}]
      [] sh.kind = "Copy"       -> [st EXCEPT !.ref = fresh]

\* ================================================================ GamePlan
\* every shock of a plan in schedule order, and the time each is keyed at
ShockLists == UNION {[1..n -> ShockKinds] : n \in 0..MaxShocks}

ShockTimes(n) ==
    {k \in [1..n -> 0..MaxSteps] : \A i \in 1..n, j \in 1..n : i <= j => k[i] <= k[j]}

\* GamePlan.shocks: dict[int, list[Shock]]
ShocksDict(s, k) ==
    [t \in {k[i] : i \in 1..Len(s)} |->
        LET I == {i \in 1..Len(s) : k[i] = t}
            lo == CHOOSE i \in I : \A j \in I : i <= j
            hi == CHOOSE i \in I : \A j \in I : i >= j
        IN  SubSeq(s, lo, hi)]

\* GamePlan(steps, shocks)
GamePlan(steps, shockDict) == [steps |-> steps, shocks |-> shockDict]

\* game_plan.shocks.get(time, [])
ShocksAt(gp, t) == IF t \in DOMAIN gp.shocks THEN gp.shocks[t] ELSE <<>>

\* ================================================================ play_step
\* for agent, payoff, lost_match in updates: agent.update(payoff, lost_match, time)
RECURSIVE ApplyUpdates(_, _, _, _)
ApplyUpdates(ags, upd, i, t) ==
    IF i > Len(upd) THEN ags
    ELSE ApplyUpdates(
            [ags EXCEPT ![upd[i].agent] = AgentUpdate(@, upd[i].payoff, upd[i].lost_match, t)],
            upd, i + 1, t)

\* ghost: the log entries of one play_step call
UpdateEvents(upd, step, t) ==
    [i \in 1..Len(upd) |->
        [ev |-> "update", time |-> step, idx |-> i, who |-> upd[i].agent, arg |-> t, ref |-> 0]]

\* ================================================================ play_game
\* the graphs and agents a game is started on: two agents, one per position
GameNodes == {0, 1}
GameGraphs == {{Edge(0, 1)}}

Init ==
    /\ AgentIdle
    /\ LibIdle
    /\ \E g \in GameGraphs, r \in {NoRule} :
          /\ agents = [a \in {p + 1 : p \in GameNodes} |->
                          init_saver_agent(a % 2 = 1, 0, NoHomophily, 1, r)]
          /\ state = [ref |-> 0,
                      graph |-> g,
                      placements |-> [p \in GameNodes |-> p + 1],
                      agents |-> {p + 1 : p \in GameNodes},
                      payoff_strategy |->
                          payoff_strategy(FALSE, DifferentialInefficient, DifferentialEfficient)]
    /\ \E n \in 0..MaxSteps, s \in ShockLists :
          \E k \in ShockTimes(Len(s)) : plan = GamePlan(n, ShocksDict(s, k))
    /\ time = 0
    /\ shocks = <<>>
    /\ shockIdx = 0
    /\ nextRef = 1
    /\ log = <<>>
    /\ pc = "for"
    /\ matches = <<>>
    /\ updates = <<>>

\* for time in range(game_plan.steps): shocks = game_plan.shocks.get(time, [])
ForStep ==
    /\ pc = "for"
    /\ time < plan.steps
    /\ shocks' = ShocksAt(plan, time)
    /\ shockIdx' = 1
    /\ pc' = "shocks"
    /\ UNCHANGED <<state, agents, matches, updates, plan, time, nextRef, log>>
    /\ UNCHANGED <<agentVars, libVars>>

\* range(game_plan.steps) is exhausted: the generator returns
ForEnd ==
    /\ pc = "for"
    /\ time >= plan.steps
    /\ pc' = "done"
    /\ UNCHANGED <<state, agents, matches, updates, plan, time, shocks, shockIdx, nextRef, log>>
    /\ UNCHANGED <<agentVars, libVars>>

\* for shock in shocks: state = shock.apply(state)
ApplyShockDropResult ==
    /\ pc = "shocks"
    /\ shockIdx <= Len(shocks)
    /\ LET out == ShockApply(state, shocks[shockIdx], nextRef)
       IN  /\ state' = [out EXCEPT !.ref = state.ref]
           /\ nextRef' = IF out.ref = nextRef THEN nextRef + 1 ELSE nextRef
           /\ log' = Append(log, [ev |-> "shock", time |-> time, idx |-> shockIdx,
                                  who |-> shocks[shockIdx], arg |-> state.ref, ref |-> out.ref])
    /\ shockIdx' = shockIdx + 1
    /\ UNCHANGED <<agents, pc, matches, updates, plan, time, shocks>>
    /\ UNCHANGED <<agentVars, libVars>>

ApplyShock ==
    /\ pc = "shocks"
    /\ shockIdx <= Len(shocks)
    /\ LET out == ShockApply(state, shocks[shockIdx], nextRef)
       IN  /\ state' = out
           /\ nextRef' = IF out.ref = nextRef THEN nextRef + 1 ELSE nextRef
           /\ log' = Append(log, [ev |-> "shock", time |-> time, idx |-> shockIdx,
                                  who |-> shocks[shockIdx], arg |-> state.ref, ref |-> out.ref])
    /\ shockIdx' = shockIdx + 1
    /\ UNCHANGED <<agents, pc, matches, updates, plan, time, shocks>>
    /\ UNCHANGED <<agentVars, libVars>>

\* play_step(time, state): select the matches, compute every payoff, update the agents
PlayStepStaleTime ==
    /\ pc = "shocks"
    /\ shockIdx > Len(shocks)
    /\ \E ms \in select_matches(state) :
          \E draws \in [1..Len(ms) -> Draws] :
             LET upd == Updates(state.payoff_strategy, ms, draws, 1)
             IN  /\ matches' = ms
                 /\ updates' = upd
                 /\ agents' = ApplyUpdates(agents, upd, 1, 0)
                 /\ log' = Append(log, [ev |-> "select", time |-> time, idx |-> 0,
                                        who |-> 0, arg |-> 0, ref |-> state.ref])
                           \o UpdateEvents(upd, time, 0)
    /\ pc' = "yield"
    /\ UNCHANGED <<state, plan, time, shocks, shockIdx, nextRef>>
    /\ UNCHANGED <<agentVars, libVars>>

\* play_step playing and updating one match after the other
RECURSIVE MatchByMatch(_, _, _, _, _, _)
MatchByMatch(ps, ags, ms, draws, i, t) ==
    IF i > Len(ms) THEN [agents |-> ags, updates |-> <<>>]
    ELSE LET a == ms[i][1]
             b == ms[i][2]
             base == payoff_matrix(ps, ags[a].is_saver, ags[b].is_saver)
             noisy(x, p) == IF ps.stochastic /\ ags[x].is_saver THEN (p * draws[i]) \div 2 ELSE p
             pa == noisy(a, base[1] + ags[a].min_specialization)
             pb == noisy(b, base[2] + ags[b].min_specialization)
             ags1 == [ags EXCEPT ![a] = AgentUpdate(@, pa, pa < pb, t)]
             ags2 == [ags1 EXCEPT ![b] = AgentUpdate(@, pb, pb < pa, t)]
             rest == MatchByMatch(ps, ags2, ms, draws, i + 1, t)
         IN  [agents |-> rest.agents,
              updates |-> << [agent |-> a, payoff |-> pa, lost_match |-> pa < pb],
                             [agent |-> b, payoff |-> pb, lost_match |-> pb < pa] >>
                          \o rest.updates]

PlayStepMatchByMatch ==
    /\ pc = "shocks"
    /\ shockIdx > Len(shocks)
    /\ \E ms \in select_matches(state) :
          \E draws \in [1..Len(ms) -> Draws] :
             LET out == MatchByMatch(state.payoff_strategy, agents, ms, draws, 1, time)
             IN  /\ matches' = ms
                 /\ updates' = out.updates
                 /\ agents' = out.agents
                 /\ log' = Append(log, [ev |-> "select", time |-> time, idx |-> 0,
                                        who |-> 0, arg |-> 0, ref |-> state.ref])
                           \o UpdateEvents(out.updates, time, time)
    /\ pc' = "yield"
    /\ UNCHANGED <<state, plan, time, shocks, shockIdx, nextRef>>
    /\ UNCHANGED <<agentVars, libVars>>

PlayStep ==
    /\ pc = "shocks"
    /\ shockIdx > Len(shocks)
    /\ \E ms \in select_matches(state) :
          \E draws \in [1..Len(ms) -> Draws] :
             LET upd == Updates(state.payoff_strategy, ms, draws, 1)
             IN  /\ matches' = ms
                 /\ updates' = upd
                 /\ agents' = ApplyUpdates(agents, upd, 1, time)
                 /\ log' = Append(log, [ev |-> "select", time |-> time, idx |-> 0,
                                        who |-> 0, arg |-> 0, ref |-> state.ref])
                           \o UpdateEvents(upd, time, time)
    /\ pc' = "yield"
    /\ UNCHANGED <<state, plan, time, shocks, shockIdx, nextRef>>
    /\ UNCHANGED <<agentVars, libVars>>

\* yield time, state   (and, when the consumer asks for the next pair, the next time)
Yield ==
    /\ pc = "yield"
    /\ log' = Append(log, [ev |-> "yield", time |-> time, idx |-> 0,
                           who |-> 0, arg |-> time, ref |-> state.ref])
    /\ time' = time + 1
    /\ pc' = "for"
    /\ UNCHANGED <<state, agents, matches, updates, plan, shocks, shockIdx, nextRef>>
    /\ UNCHANGED <<agentVars, libVars>>

Next == ForStep \/ ForEnd \/ ApplyShock \/ PlayStep \/ Yield

Spec == Init /\ [][Next]_vars

\* the generator is driven until it is exhausted
FairSpec == Spec /\ WF_vars(Next)

\* ------------------------------------------------------- claims on play_game
Count(kind, n) == Cardinality({i \in 1..n : log[i].ev = kind})
Yields == {i \in 1..Len(log) : log[i].ev = "yield"}
ShockEvents(t) == {i \in 1..Len(log) : log[i].ev = "shock" /\ log[i].time = t}
Selected(t) == \E i \in 1..Len(log) : log[i].ev = "select" /\ log[i].time = t
EdgeShocks == {i \in 1..Len(log) : log[i].ev = "shock" /\ log[i].who.kind # "Copy"}
\* the events that take and hand on a state, in order
StateEvents == SelectSeq(log, LAMBDA e : e.ev # "update")
InRef(e) == IF e.ev = "shock" THEN e.arg ELSE e.ref

C7_Safety ==
    /\ Cardinality(Yields) <= plan.steps
    /\ pc = "done" => Cardinality(Yields) = plan.steps
    /\ \A i \in Yields : log[i].arg = Count("yield", i) - 1
    /\ \A i \in Yields : Count("select", i) = Count("yield", i)
    /\ \A i \in 1..Len(log) :
          /\ Count("select", i) - Count("yield", i) \in {0, 1}
          /\ log[i].ev = "update" =>
                /\ Count("select", i) = Count("yield", i) + 1
                /\ log[i].arg = Count("yield", i)
    /\ pc = "yield" =>
          /\ Cardinality({i \in 1..Len(log) : log[i].ev = "update" /\ log[i].time = time})
                = 2 * Len(matches)
          /\ \A i \in 1..Len(updates) :
                LET m == agents[updates[i].agent].memory
                IN  m # <<>> /\ m[Len(m)].time = time

\* C7: play_game ends after yielding exactly plan.steps pairs (time, state), the
\* times being 0, 1, ..., steps-1 in increasing order (none when steps = 0);
\* exactly one complete step runs before each yield, and every agent update of
\* that step is called with that step's time.
C7_YieldsEachTimeAfterOneStep == [](C7_Safety) /\ <>(pc = "done")

C7_Witness ==
    /\ pc = "done"
    /\ plan.steps = MaxSteps
    /\ Cardinality(Yields) = MaxSteps
    /\ \E i \in 1..Len(log) : log[i].ev = "update" /\ log[i].arg = MaxSteps - 1
    /\ \E a \in DOMAIN agents : agents[a].memory # <<>> /\ agents[a].memory[1].time = MaxSteps - 1

\* C8: the shocks scheduled at time t are applied one after another in list
\* order, each exactly once and each on the state the previous one returned,
\* after all updates of step t-1 and before the matches of step t are selected;
\* the step and the yield use the state the last shock returned; a time without
\* an entry applies no shock, and shocks keyed outside 0..steps-1 are never
\* applied.
C8_ShocksInOrderOnReturnedState ==
    /\ \A t \in 0..MaxSteps :
          LET E == ShockEvents(t)
              sched == IF t < plan.steps THEN ShocksAt(plan, t) ELSE <<>>
          IN  /\ Cardinality(E) <= Len(sched)
              /\ {log[i].idx : i \in E} = 1..Cardinality(E)
              /\ \A i \in E, j \in E : i < j => log[i].idx < log[j].idx
              /\ \A i \in E : log[i].who = sched[log[i].idx]
              /\ Selected(t) => Cardinality(E) = Len(sched)
    /\ \A i \in 1..Len(log), j \in 1..Len(log) :
          /\ (i < j /\ log[i].ev \in {"select", "update", "yield"} /\ log[j].ev = "shock")
                => log[i].time < log[j].time
          /\ (i < j /\ log[i].ev = "shock" /\ log[j].ev \in {"select", "update", "yield"})
                => log[i].time <= log[j].time
    /\ LET se == StateEvents
       IN  /\ se # <<>> => InRef(se[1]) = 0
           /\ \A i \in 1..(Len(se) - 1) : InRef(se[i + 1]) = se[i].ref
           /\ state.ref = IF se = <<>> THEN 0 ELSE se[Len(se)].ref
    /\ LET last_edge == IF EdgeShocks = {} THEN 0
                        ELSE CHOOSE i \in EdgeShocks : \A j \in EdgeShocks : j <= i
       IN  (Edge(0, 1) \in state.graph)
              <=> (last_edge = 0 \/ log[last_edge].who.kind = "AddEdge")

C8_Witness ==
    /\ pc = "done"
    /\ plan.steps = 2
    /\ DOMAIN plan.shocks = {1}
    /\ Len(plan.shocks[1]) = 2
    /\ plan.shocks[1][1].kind = "Copy"
    /\ plan.shocks[1][2].kind = "RemoveEdge"
    /\ Cardinality(ShockEvents(1)) = 2
    /\ state.ref # 0
    /\ Edge(0, 1) \notin state.graph

\* ============================================================== SpecPayoff
\* One call of play_match on a pair of agents, for every is_saver and
\* min_specialization assignment, every strategy setting and every output of the
\* random generator.
MinSpecializations == {0, PayoffOne \div 10}
Inefficiencies == {DifferentialInefficient, 2 * DifferentialInefficient}
Efficiencies == {DifferentialEfficient, 2 * DifferentialEfficient}

\* the generator of the strategy: the next two values it returns
RngStreams == [1..2 -> Draws]

\* lognormal(mean, sigma, rng=self._rng): the next value of the generator
lognormal(r) == r.stream[r.used + 1]

InitPayoff ==
    /\ AgentIdle
    /\ LoopIdle
    /\ \E sv \in [1..2 -> BOOLEAN], ms \in [1..2 -> MinSpecializations] :
          agents = [a \in 1..2 |-> init_saver_agent(sv[a], ms[a], NoHomophily, 1, NoRule)]
    /\ \E st \in BOOLEAN, ineff \in Inefficiencies, eff \in Efficiencies :
          state = [payoff_strategy |-> payoff_strategy(st, ineff, eff),
                   differential_inefficient |-> ineff,
                   differential_efficient |-> eff]
    /\ \E str \in RngStreams : rng = [stream |-> str, used |-> 0]
    /\ pc = "call"
    /\ matches = << <<1, 2>> >>
    /\ updates = <<>>
    /\ sg = "idle" /\ placement = "idle" /\ ret = NoCall

\* play_match([a, b], payoff_strategy); calculate_payoff takes one value from the
\* generator when the strategy is stochastic
PlayMatch ==
    /\ pc = "call"
    /\ LET ps == state.payoff_strategy
           draw == IF ps.stochastic THEN lognormal(rng) ELSE 2
       IN  /\ updates' = play_match(ps, matches[1], draw)
           /\ ret' = [who |-> "calculate_payoff",
                      payoffs |-> calculate_payoff(ps, matches[1][1], matches[1][2], draw)]
           /\ rng' = IF ps.stochastic THEN [rng EXCEPT !.used = @ + 1] ELSE rng
    /\ pc' = "paid"
    /\ UNCHANGED <<state, agents, matches, sg, placement>>
    /\ UNCHANGED <<agentVars, loopVars>>

NextPayoff == PlayMatch

SpecPayoff == InitPayoff /\ [][NextPayoff]_vars

\* ------------------------------------------------------ claims on SpecPayoff
\* the matrix entry of agent i of the pair, written out case by case
BaseEntry(i) ==
    LET me == agents[i].is_saver
        other == agents[3 - i].is_saver
    IN  IF me /\ other THEN PayoffOne + state.differential_efficient
        ELSE IF me THEN PayoffOne - state.differential_inefficient
        ELSE PayoffOne

Deterministic(i) == BaseEntry(i) + agents[i].min_specialization

\* C11: with stochastic noise off, calculate_payoff returns the matrix entry of
\* the pair's saver encodings plus each agent's own min_specialization; with
\* eff = 0.15, ineff = 0.1 and no specialization that is (1.15, 1.15) for two
\* savers and (0.9, 1.0) for a saver against a non-saver.
C11_DeterministicPayoffs ==
    (pc = "paid" /\ ~state.payoff_strategy.stochastic) =>
        /\ ret.payoffs = <<Deterministic(1), Deterministic(2)>>
        /\ (/\ state.differential_efficient = DifferentialEfficient
            /\ state.differential_inefficient = DifferentialInefficient
            /\ \A a \in 1..2 : agents[a].min_specialization = 0) =>
              /\ (agents[1].is_saver /\ agents[2].is_saver) =>
                    ret.payoffs = <<(PayoffOne * 115) \div 100, (PayoffOne * 115) \div 100>>
              /\ (agents[1].is_saver /\ ~agents[2].is_saver) =>
                    ret.payoffs = <<(PayoffOne * 9) \div 10, PayoffOne>>
              /\ (~agents[1].is_saver /\ agents[2].is_saver) =>
                    ret.payoffs = <<PayoffOne, (PayoffOne * 9) \div 10>>
              /\ (~agents[1].is_saver /\ ~agents[2].is_saver) =>
                    ret.payoffs = <<PayoffOne, PayoffOne>>
        /\ rng.used = 0

C11_Witness ==
    /\ pc = "paid"
    /\ ~state.payoff_strategy.stochastic
    /\ agents[1].is_saver /\ ~agents[2].is_saver
    /\ agents[1].min_specialization > 0 /\ agents[2].min_specialization = 0
    /\ state.differential_inefficient = DifferentialInefficient
    /\ ret.payoffs = <<(PayoffOne * 9) \div 10 + PayoffOne \div 10, PayoffOne>>

\* C12: in stochastic mode a non-saver's payoff is never perturbed: whatever the
\* match and the noise draw, it is the matrix entry plus its own min_specialization.
C12_NonSaverNeverPerturbed ==
    (pc = "paid" /\ state.payoff_strategy.stochastic) =>
        \A i \in 1..2 : ~agents[i].is_saver => ret.payoffs[i] = Deterministic(i)

C12_Witness ==
    /\ pc = "paid"
    /\ state.payoff_strategy.stochastic
    /\ agents[1].is_saver /\ ~agents[2].is_saver
    /\ agents[2].min_specialization > 0
    /\ ret.payoffs[1] # Deterministic(1)
    /\ ret.payoffs[2] = Deterministic(2)

\* C13: in stochastic mode each saver's payoff is multiplied by its own draw: in
\* a match of two savers the first payoff carries the first value of the
\* generator and the second payoff the next one, so that with two different
\* values (and equal specializations) exactly one of the two savers is marked
\* as having lost.
C13_EachSaverItsOwnDraw ==
    (/\ pc = "paid"
     /\ state.payoff_strategy.stochastic
     /\ agents[1].is_saver /\ agents[2].is_saver) =>
        /\ ret.payoffs[1] = (Deterministic(1) * rng.stream[1]) \div 2
        /\ ret.payoffs[2] = (Deterministic(2) * rng.stream[2]) \div 2
        /\ (/\ rng.stream[1] # rng.stream[2]
            /\ agents[1].min_specialization = agents[2].min_specialization) =>
              (updates[1].lost_match # updates[2].lost_match)

\* ============================================================= SimpleGraph
\* A SimpleGraph object g: g._nodes is the list of agents by position (NoAgent
\* for None), g._addition_order maps the uuid of every agent ever added to its
\* position, and g.nx_nodes / g.nx_edges are the nodes and edges of the NetworkX
\* graph g._graph.  A call returns [raised, value, sg]: the exception that left
\* the method (NoRaise if none), the value returned and the object afterwards.
NoRaise == "none"
Returned(v, g) == [raised |-> NoRaise, value |-> v, sg |-> g]
Raised(e, g) == [raised |-> e, value |-> "none", sg |-> g]

\* the ways a caller names a node: the agent or its uuid string, or a position
ByUuid(a) == [kind |-> "uuid", id |-> a]
ByPos(p) == [kind |-> "pos", pos |-> p]

\* SimpleGraph(graph, nodes): agent i of nodes is put on position i
SimpleGraph(graph, nodes) ==
    [_nodes |-> nodes,
     _addition_order |-> [a \in {nodes[i] : i \in 1..Len(nodes)} |->
                             (CHOOSE i \in 1..Len(nodes) : nodes[i] = a) - 1],
     nx_nodes |-> 0..Len(nodes) - 1,
     nx_edges |-> graph]

\* _get_pos_from_node: a KeyError for a uuid that was never added, the integer as is
get_pos_from_node(g, h) ==
    IF h.kind = "pos" THEN Returned(h.pos, g)
    ELSE IF h.id \in DOMAIN g._addition_order THEN Returned(g._addition_order[h.id], g)
    ELSE Raised("KeyError", g)

get_node(g, h) ==
    LET pos == get_pos_from_node(g, h)
    IN  IF pos.raised # NoRaise THEN pos
        ELSE IF pos.value + 1 \in 1..Len(g._nodes) THEN Returned(g._nodes[pos.value + 1], g)
        ELSE Raised("IndexError", g)

\* len(list(filter(None, self._nodes)))
num_nodes(g) == Cardinality({i \in 1..Len(g._nodes) : g._nodes[i] # NoAgent})

num_edges(g) == Cardinality(g.nx_edges)

\* self._graph.neighbors(pos), then filter(None, (self.get_node(i) for i in _neighs))
get_neighbours(g, h) ==
    LET pos == get_pos_from_node(g, h)
    IN  IF pos.raised # NoRaise THEN pos
        ELSE IF pos.value \notin g.nx_nodes THEN Raised("NetworkXError", g)
        ELSE Returned({g._nodes[q + 1] : q \in Neighbours(g.nx_edges, pos.value)} \ {NoAgent}, g)

\* add_node(node): the next position is the length of the list, removed entries included
AddNodeReusingEmptySlot(g, a) ==
    LET empty == {i \in 1..Len(g._nodes) : g._nodes[i] = NoAgent}
        pos == IF empty = {} THEN Len(g._nodes) ELSE (CHOOSE i \in empty : TRUE) - 1
    IN  IF a \in DOMAIN g._addition_order THEN Returned(FALSE, g)
        ELSE Returned(TRUE,
                [g EXCEPT !.nx_nodes = @ \cup {pos},
                          !._nodes = IF pos = Len(g._nodes) THEN Append(@, a)
                                     ELSE [@ EXCEPT ![pos + 1] = a],
                          !._addition_order = [x \in DOMAIN @ \cup {a} |->
                                                  IF x = a THEN pos ELSE @[x]]])

add_node(g, a) ==
    LET pos == Len(g._nodes)
    IN  IF a \in DOMAIN g._addition_order THEN Returned(FALSE, g)
        ELSE Returned(TRUE,
                [g EXCEPT !.nx_nodes = @ \cup {pos},
                          !._nodes = Append(@, a),
                          !._addition_order = [x \in DOMAIN @ \cup {a} |->
                                                  IF x = a THEN pos ELSE @[x]]])

\* remove_node(node): NetworkXError (node not in _graph) is turned into False
remove_node(g, h) ==
    LET pos == get_pos_from_node(g, h)
    IN  IF pos.raised # NoRaise THEN pos
        ELSE IF pos.value \notin g.nx_nodes THEN Returned(FALSE, g)
        ELSE Returned(TRUE,
                [g EXCEPT !.nx_nodes = @ \ {pos.value},
                          !.nx_edges = {e \in @ : pos.value \notin e},
                          !._nodes = [@ EXCEPT ![pos.value + 1] = NoAgent]])

\* add_edge(u, v): KeyError is turned into False; _graph.add_edge also adds the
\* endpoints that are not nodes of _graph
add_edge(g, u, v) ==
    LET pos_u == get_pos_from_node(g, u)
        pos_v == get_pos_from_node(g, v)
    IN  IF pos_u.raised = "KeyError" \/ pos_v.raised = "KeyError" THEN Returned(FALSE, g)
        ELSE IF Edge(pos_u.value, pos_v.value) \in g.nx_edges THEN Returned(FALSE, g)
        ELSE IF pos_u.value = pos_v.value THEN Returned(FALSE, g)
        ELSE Returned(TRUE,
                [g EXCEPT !.nx_nodes = @ \cup {pos_u.value, pos_v.value},
                          !.nx_edges = @ \cup {Edge(pos_u.value, pos_v.value)}])

\* remove_edge(u, v): NetworkXError (no such edge) is turned into False
remove_edge(g, u, v) ==
    LET pos_u == get_pos_from_node(g, u)
        pos_v == get_pos_from_node(g, v)
    IN  IF pos_u.raised # NoRaise THEN pos_u
        ELSE IF pos_v.raised # NoRaise THEN pos_v
        ELSE IF Edge(pos_u.value, pos_v.value) \notin g.nx_edges THEN Returned(FALSE, g)
        ELSE Returned(TRUE, [g EXCEPT !.nx_edges = @ \ {Edge(pos_u.value, pos_v.value)}])

\* =============================================================== SpecGraph
\* A SimpleGraph built on up to MaxAgents agents, then any sequence of add_node,
\* remove_node, add_edge and remove_edge calls, each naming its nodes by uuid or
\* by position.
InitGraphs(n) == {EmptyGraph(n), PathGraph(n), CompleteGraph(n)}

Handles(g) ==
    {ByUuid(a) : a \in 1..MaxAgents} \cup {ByPos(p) : p \in 0..Len(g._nodes) - 1}

\* ghost: the successful add_node calls (and the constructor's), in order
Added(a, pos) == [ev |-> "add_node", agent |-> a, pos |-> pos]

InitGraph ==
    /\ AgentIdle
    /\ state = "idle" /\ agents = <<>> /\ pc = "idle" /\ matches = <<>> /\ updates = <<>>
    /\ plan = "idle" /\ time = 0 /\ shocks = <<>> /\ shockIdx = 0 /\ nextRef = 0
    /\ rng = "idle" /\ placement = "idle"
    /\ \E n \in 0..MaxAgents :
          \E g \in InitGraphs(n) :
             /\ sg = SimpleGraph(g, [i \in 1..n |-> i])
             /\ log = [i \in 1..n |-> Added(i, i - 1)]
    /\ ret = NoCall

GraphFrame ==
    /\ UNCHANGED <<state, agents, pc, matches, updates>>
    /\ UNCHANGED <<plan, time, shocks, shockIdx, nextRef, rng, placement>>
    /\ UNCHANGED agentVars

\* G.add_node(agent): agents are created in the order of their uuids
AddNode ==
    /\ \E a \in 1..MaxAgents :
          /\ a <= Cardinality(DOMAIN sg._addition_order) + 1
          /\ LET r == add_node(sg, a)
             IN  /\ sg' = r.sg
                 /\ ret' = [who |-> "add_node", value |-> r.value, raised |-> r.raised]
                 /\ log' = IF r.value = TRUE
                           THEN Append(log, Added(a, r.sg._addition_order[a]))
                           ELSE log
    /\ GraphFrame

RemoveNode ==
    /\ \E h \in Handles(sg) :
          LET r == remove_node(sg, h)
          IN  /\ sg' = r.sg
              /\ ret' = [who |-> "remove_node", value |-> r.value, raised |-> r.raised]
    /\ UNCHANGED log
    /\ GraphFrame

AddEdge ==
    /\ \E u \in Handles(sg), v \in Handles(sg) :
          LET r == add_edge(sg, u, v)
          IN  /\ sg' = r.sg
              /\ ret' = [who |-> "add_edge", value |-> r.value, raised |-> r.raised]
    /\ UNCHANGED log
    /\ GraphFrame

RemoveEdge ==
    /\ \E u \in Handles(sg), v \in Handles(sg) :
          LET r == remove_edge(sg, u, v)
          IN  /\ sg' = r.sg
              /\ ret' = [who |-> "remove_edge", value |-> r.value, raised |-> r.raised]
    /\ UNCHANGED log
    /\ GraphFrame

NextGraph == AddNode \/ RemoveNode \/ AddEdge \/ RemoveEdge

SpecGraph == InitGraph /\ [][NextGraph]_vars

\* ------------------------------------------------------- claims on SpecGraph
\* a handle names a node that is in the graph now: an agent on some position
Present(g, h) ==
    IF h.kind = "uuid" THEN \E i \in 1..Len(g._nodes) : g._nodes[i] = h.id
    ELSE h.pos + 1 \in 1..Len(g._nodes) /\ g._nodes[h.pos + 1] # NoAgent

\* the position of the node a present handle names
PosOf(g, h) ==
    IF h.kind = "uuid" THEN (CHOOSE i \in 1..Len(g._nodes) : g._nodes[i] = h.id) - 1
    ELSE h.pos

LiveAgents(g) == {g._nodes[i] : i \in 1..Len(g._nodes)} \ {NoAgent}

\* C14: add_edge(u, v) returns False, raises nothing and leaves the graph
\* unchanged when the edge exists, when u = v or when an endpoint is absent (never
\* added, or removed by remove_node); otherwise it adds exactly that edge and
\* returns True, and a second call on the same pair returns False.
C14_AddEdgeFailsOrAddsExactly ==
    \A u \in Handles(sg), v \in Handles(sg) :
        LET r == add_edge(sg, u, v)
            cannot == \/ ~Present(sg, u)
                      \/ ~Present(sg, v)
                      \/ PosOf(sg, u) = PosOf(sg, v)
                      \/ Edge(PosOf(sg, u), PosOf(sg, v)) \in sg.nx_edges
        IN  /\ r.raised = NoRaise
            /\ IF cannot
               THEN r.value = FALSE /\ r.sg = sg
               ELSE /\ r.value = TRUE
                    /\ r.sg.nx_edges = sg.nx_edges \cup {Edge(PosOf(sg, u), PosOf(sg, v))}
                    /\ r.sg._nodes = sg._nodes
                    /\ add_edge(r.sg, u, v).value = FALSE

C16_RemoveNodeDropsNodeAndItsEdges ==
    /\ \A h \in Handles(sg) :
          LET r == remove_node(sg, h)
              pos == get_pos_from_node(sg, h).value
          IN  (r.raised = NoRaise /\ r.value = TRUE) =>
                /\ get_node(r.sg, ByPos(pos)).value = NoAgent
                /\ num_nodes(r.sg) = num_nodes(sg) - 1
                /\ r.sg.nx_edges = {e \in sg.nx_edges : pos \notin e}
    /\ \A h \in Handles(sg) :
          Present(sg, h) =>
             LET n == get_neighbours(sg, h)
             IN  n.raised = NoRaise /\ n.value \subseteq LiveAgents(sg)

\* C17: remove_node and remove_edge that cannot apply (node already removed, node
\* or endpoint never in the graph, edge absent) return False, raise nothing and
\* change nothing; the same node, or the same edge, removed twice gives True
\* then False.
C17_RemoveThatCannotApplyReturnsFalse ==
    /\ \A h \in Handles(sg) :
          LET r == remove_node(sg, h)
          IN  /\ r.raised = NoRaise
              /\ ~Present(sg, h) => (r.value = FALSE /\ r.sg = sg)
              /\ r.value = TRUE => remove_node(r.sg, h) = Returned(FALSE, r.sg)
    /\ \A u \in Handles(sg), v \in Handles(sg) :
          LET r == remove_edge(sg, u, v)
              cannot == \/ ~Present(sg, u)
                        \/ ~Present(sg, v)
                        \/ Edge(PosOf(sg, u), PosOf(sg, v)) \notin sg.nx_edges
          IN  /\ r.raised = NoRaise
              /\ cannot => (r.value = FALSE /\ r.sg = sg)
              /\ r.value = TRUE => remove_edge(r.sg, u, v) = Returned(FALSE, r.sg)

\* ================================================= select_random_neighbour
\* A homophily trait is [set, num, is_int]: the value num / HomDen, given as a
\* Python int (0 or 1 only) or as a float.  NumPy keeps the weights built from an
\* int homophily in an integer array.
NeighbourHomophilies ==
    {NoHomophily}
    \cup {[set |-> TRUE, num |-> k, is_int |-> FALSE] : k \in 0..HomDen}
    \cup {[set |-> TRUE, num |-> k, is_int |-> TRUE] : k \in {0, HomDen}}

RECURSIVE SumOver(_, _)
SumOver(f, S) ==
    IF S = {} THEN 0
    ELSE LET x == CHOOSE y \in S : TRUE IN f[x] + SumOver(f, S \ {x})

\* choice(lst, p=ps, rng=rng) of utils/stats.py: the values it can return.
\* ps is None (NoHomophily) or holds the weights p, times HomDen, of the elements of lst.
choice(lst, ps, is_int) ==
    IF ~ps.set THEN Returned(lst, sg)
    ELSE LET mass == SumOver(ps.p, lst)
         IN  IF \E n \in lst : ps.p[n] < 0 THEN Raised("ValueError", sg)
             ELSE IF mass = 0 THEN Raised("ValueError", sg)
             ELSE IF mass # HomDen /\ is_int THEN Raised("TypeError", sg)
             ELSE Returned({n \in lst : ps.p[n] > 0}, sg)

\* select_random_neighbour(node): value is the set of results the call can give,
\* NoAgent standing for None
SelectRandomNeighbourNoEmptyGuard(g, h) ==
    LET node == get_node(g, h)
    IN  IF node.raised # NoRaise THEN node
        ELSE IF node.value = NoAgent THEN Raised("TypeError", g)
        ELSE LET neighs == get_neighbours(g, ByUuid(node.value))
                 hom == agents[node.value].homophily
             IN  IF neighs.raised # NoRaise THEN neighs
                 ELSE IF neighs.value = {} THEN Raised("IndexError", g)
                 ELSE LET ps == IF hom.set
                                THEN [set |-> TRUE,
                                      p |-> [n \in neighs.value |-> Weight(node.value, n)]]
                                ELSE NoHomophily
                          c == choice(neighs.value, ps, hom.set /\ hom.is_int)
                      IN  IF c.raised = "ValueError" THEN Returned({NoAgent}, g)
                          ELSE [c EXCEPT !.sg = g]

select_random_neighbour(g, h) ==
    LET node == get_node(g, h)
    IN  IF node.raised # NoRaise THEN node
        ELSE IF node.value = NoAgent THEN Raised("TypeError", g)
        ELSE LET neighs == get_neighbours(g, ByUuid(node.value))
                 hom == agents[node.value].homophily
             IN  IF neighs.raised # NoRaise THEN neighs
                 ELSE IF neighs.value = {} THEN Returned({NoAgent}, g)
                 ELSE LET ps == IF hom.set
                                THEN [set |-> TRUE,
                                      p |-> [n \in neighs.value |-> Weight(node.value, n)]]
                                ELSE NoHomophily
                          c == choice(neighs.value, ps, hom.set /\ hom.is_int)
                      IN  IF c.raised = "ValueError" THEN Returned({NoAgent}, g)
                          ELSE [c EXCEPT !.sg = g]

\* =========================================================== SpecNeighbour
\* A SimpleGraph on MaxAgents agents of any is_saver values and a common
\* homophily, some nodes removed, then select_random_neighbour on any node.
InitNeighbour ==
    /\ AgentIdle
    /\ LoopIdle
    /\ state = "idle" /\ pc = "idle" /\ matches = <<>> /\ updates = <<>>
    /\ rng = "idle" /\ placement = "idle"
    /\ \E sv \in [1..MaxAgents -> BOOLEAN], h \in NeighbourHomophilies :
          agents = [a \in 1..MaxAgents |-> init_saver_agent(sv[a], 0, h, 1, NoRule)]
    /\ \E g \in InitGraphs(MaxAgents) \cup {StarGraph(MaxAgents)} :
          sg = SimpleGraph(g, [i \in 1..MaxAgents |-> i])
    /\ ret = NoCall

SelectRandomNeighbour ==
    /\ \E h \in Handles(sg) :
          LET r == select_random_neighbour(sg, h)
          IN  IF r.raised # NoRaise
              THEN ret' = [who |-> "select_random_neighbour", node |-> h,
                           raised |-> r.raised, value |-> NoAgent]
              ELSE \E n \in r.value :
                      ret' = [who |-> "select_random_neighbour", node |-> h,
                              raised |-> NoRaise, value |-> n]
    /\ UNCHANGED <<sg, log>>
    /\ GraphFrame

NextNeighbour == RemoveNode \/ SelectRandomNeighbour

SpecNeighbour == InitNeighbour /\ [][NextNeighbour]_vars

\* --------------------------------------------------- claims on SpecNeighbour
\* the live agents on the positions adjacent to agent a's position
LiveNeighboursOf(g, a) ==
    LET p == PosOf(g, ByUuid(a))
    IN  {g._nodes[q + 1] : q \in {q \in 0..Len(g._nodes) - 1 : {p, q} \in g.nx_edges /\ q # p}}
            \ {NoAgent}

\* weight of neighbour n for agent a, times HomDen
HomophilyWeight(a, n) ==
    IF agents[a].is_saver = agents[n].is_saver
    THEN agents[a].homophily.num
    ELSE HomDen - agents[a].homophily.num

\* C18: select_random_neighbour never raises: it returns None when the node has
\* no live neighbour or when every homophily weight is zero, and otherwise a live
\* neighbour of positive weight (homophily for a neighbour of the node's own
\* is_saver value, 1 - homophily for another), so that homophily 1 yields
\* same-is_saver neighbours only and homophily 0 different ones only.
C18_SelectRandomNeighbourNeverRaises ==
    (ret.who = "select_random_neighbour" /\ Present(sg, ret.node)) =>
        LET a == sg._nodes[PosOf(sg, ret.node) + 1]
            hom == agents[a].homophily
            live == LiveNeighboursOf(sg, a)
            able == IF hom.set THEN {n \in live : HomophilyWeight(a, n) > 0} ELSE live
        IN  /\ ret.raised = NoRaise
            /\ ret.value = NoAgent <=> able = {}
            /\ ret.value # NoAgent =>
                  /\ ret.value \in able
                  /\ (hom.set /\ hom.num = HomDen) =>
                        agents[ret.value].is_saver = agents[a].is_saver
                  /\ (hom.set /\ hom.num = 0) =>
                        agents[ret.value].is_saver # agents[a].is_saver

\* ============================================================== placement
\* AgentPlacement operations on a placement pl (position -> agent, NoAgent where
\* empty).  add_agent gives the set of outcomes the contract allows: it raises on
\* an occupied position; for an agent that already stands on another position the
\* contract only fixes that the mapping stays injective (the call raises, or the
\* agent moves).
PositionOfAgent(pl, a) == {p \in DOMAIN pl : pl[p] = a}

AddAgentOverwriting(pl, a, pos) ==
    {Returned({}, [pl EXCEPT ![pos] = a])}

add_agent(pl, a, pos) ==
    IF pl[pos] # NoAgent THEN {Raised("ValueError", pl)}
    ELSE IF PositionOfAgent(pl, a) = {} THEN {Returned({}, [pl EXCEPT ![pos] = a])}
    ELSE {Raised("ValueError", pl),
          Returned({}, [q \in DOMAIN pl |-> IF q = pos THEN a
                                            ELSE IF pl[q] = a THEN NoAgent ELSE pl[q]])}

\* clear_node(position): the position, or None ({}) when it was already empty
clear_node(pl, pos) ==
    IF pl[pos] = NoAgent THEN Returned({}, pl)
    ELSE Returned({pos}, [pl EXCEPT ![pos] = NoAgent])

\* =========================================================== SpecPlacement
\* The placement init_bijection builds on MaxAgents positions, then any sequence
\* of add_agent and clear_node calls, with one more agent than positions.
InitPlacement ==
    /\ AgentIdle
    /\ GameIdle
    /\ rng = "idle" /\ sg = "idle"
    /\ placement = init_bijection(MaxAgents)
    /\ ret = NoCall

PlacementFrame ==
    /\ UNCHANGED <<gameVars, loopVars, agentVars>>
    /\ UNCHANGED <<rng, sg>>

AddAgent ==
    /\ \E a \in 1..MaxAgents + 1, pos \in DOMAIN placement :
          \E r \in add_agent(placement, a, pos) :
             /\ placement' = r.sg
             /\ ret' = [who |-> "add_agent", agent |-> a, pos |-> pos,
                        raised |-> r.raised, value |-> {}, before |-> placement]
    /\ PlacementFrame

ClearNode ==
    /\ \E pos \in DOMAIN placement :
          LET r == clear_node(placement, pos)
          IN  /\ placement' = r.sg
              /\ ret' = [who |-> "clear_node", agent |-> NoAgent, pos |-> pos,
                         raised |-> r.raised, value |-> r.value, before |-> placement]
    /\ PlacementFrame

NextPlacement == AddAgent \/ ClearNode

SpecPlacement == InitPlacement /\ [][NextPlacement]_vars

\* --------------------------------------------------- claims on SpecPlacement
\* C19: the placement is always a partial injective map (a position holds at
\* most one agent, an agent stands on at most one position); add_agent on an
\* occupied position raises and leaves the placement unchanged; clear_node on an
\* empty position returns None and changes nothing.
C19_PlacementIsPartialInjective ==
    /\ \A p \in DOMAIN placement, q \in DOMAIN placement :
          (p # q /\ placement[p] # NoAgent) => placement[p] # placement[q]
    /\ \A p \in DOMAIN placement : placement[p] \in 0..MaxAgents + 1
    /\ (ret.who = "add_agent" /\ ret.before[ret.pos] # NoAgent) =>
          (ret.raised # NoRaise /\ placement = ret.before)
    /\ (ret.who = "add_agent" /\ ret.raised = NoRaise) =>
          /\ placement[ret.pos] = ret.agent
          /\ \A q \in DOMAIN placement :
                (q # ret.pos /\ ret.before[q] # ret.agent) => placement[q] = ret.before[q]
    /\ (ret.who = "clear_node" /\ ret.before[ret.pos] = NoAgent) =>
          (ret.raised = NoRaise /\ ret.value = {} /\ placement = ret.before)
    /\ (ret.who = "clear_node" /\ ret.before[ret.pos] # NoAgent) =>
          /\ ret.raised = NoRaise /\ ret.value = {ret.pos}
          /\ placement = [ret.before EXCEPT ![ret.pos] = NoAgent]

C19_Witness ==
    /\ ret.who = "add_agent"
    /\ ret.raised # NoRaise
    /\ ret.before[ret.pos] # NoAgent
    /\ ret.before[ret.pos] # ret.agent
    /\ \E q \in DOMAIN placement : placement[q] = NoAgent
    /\ \E q \in DOMAIN placement : placement[q] = MaxAgents + 1

\* ======================================================= remove-player shocks
\* shocks.py applies a shock to a game whose graph is a SimpleGraph with the
\* players as its nodes.
\* select_random_node(rng): the agents choice(self.get_nodes()) can return
select_random_node(g) == LiveAgents(g)

\* RemovePlayer(node).apply(game): a position or uuid is resolved with get_node
\* first; a node that resolves to None is skipped when DEBUG is set and handed
\* to remove_node otherwise, where _get_pos_from_node rejects it
RemovePlayerApply(g, h) ==
    LET node == get_node(g, h)
    IN  IF node.raised # NoRaise THEN {node}
        ELSE IF node.value = NoAgent THEN {Returned("None", g), Raised("TypeError", g)}
        ELSE {remove_node(g, ByUuid(node.value))}

\* RemoveRandomPlayer(rng).apply(game)
RemoveRandomPlayerApply(g, a) == remove_node(g, ByUuid(a))

\* =============================================================== SpecShock
\* A game on MaxAgents players, then any sequence of RemovePlayer,
\* RemoveRandomPlayer and SwapEdge shocks.
InitShock ==
    /\ AgentIdle
    /\ state = "idle" /\ agents = <<>> /\ pc = "idle" /\ matches = <<>> /\ updates = <<>>
    /\ LoopIdle
    /\ rng = "idle" /\ placement = "idle"
    /\ \E g \in InitGraphs(MaxAgents) \cup {StarGraph(MaxAgents)} :
          sg = SimpleGraph(g, [i \in 1..MaxAgents |-> i])
    /\ ret = NoCall

ApplyRemovePlayer ==
    /\ \E h \in Handles(sg) :
          \E r \in RemovePlayerApply(sg, h) :
             /\ sg' = r.sg
             /\ ret' = [who |-> "RemovePlayer", node |-> h, raised |-> r.raised, before |-> sg]
    /\ UNCHANGED log
    /\ GraphFrame

\* the node of a call that selected none
NoNode == [kind |-> "pos", pos |-> -1]

\* rng.choice of an empty list of nodes raises ValueError (stats.py:51)
ApplyRemoveRandomPlayer ==
    /\ IF select_random_node(sg) = {}
       THEN /\ sg' = sg
            /\ ret' = [who |-> "RemoveRandomPlayer", node |-> NoNode,
                       raised |-> "ValueError", before |-> sg]
       ELSE \E a \in select_random_node(sg) :
               LET r == RemoveRandomPlayerApply(sg, a)
               IN  /\ sg' = r.sg
                   /\ ret' = [who |-> "RemoveRandomPlayer", node |-> ByUuid(a),
                              raised |-> r.raised, before |-> sg]
    /\ UNCHANGED log
    /\ GraphFrame

\* what applying an edge shock gives: the exception that left apply (or none),
\* the graph afterwards, whether an edge was rewired, added or removed, the
\* nodes u (or pivot_u), v and w the shock settled on, and the number of
\* candidates it drew
ShockOutcome(raised, g, acted, u, v, w, draws) ==
    [raised |-> raised, sg |-> g, acted |-> acted, u |-> u, v |-> v, w |-> w, draws |-> draws]

\* SwapEdge(pivot_u, v, w).apply(game): the arguments go to the graph as given
SwapEdgeApply(g, pivot_u, v, w) ==
    LET removed == remove_edge(g, pivot_u, v)
    IN  IF removed.raised # NoRaise
        THEN ShockOutcome(removed.raised, g, FALSE, pivot_u, v, w, 0)
        ELSE LET added == add_edge(removed.sg, pivot_u, w)
             IN  ShockOutcome(added.raised, added.sg,
                              removed.value = TRUE \/ added.value = TRUE, pivot_u, v, w, 0)

ApplySwapEdge ==
    /\ \E pivot_u \in 1..MaxAgents, v \in 1..MaxAgents, w \in 1..MaxAgents :
          LET o == SwapEdgeApply(sg, ByUuid(pivot_u), ByUuid(v), ByUuid(w))
          IN  /\ sg' = o.sg
              /\ ret' = [who |-> "SwapEdge", raised |-> o.raised, acted |-> o.acted,
                         draws |-> o.draws]
    /\ UNCHANGED log
    /\ GraphFrame

NextShock == ApplyRemovePlayer \/ ApplyRemoveRandomPlayer \/ ApplySwapEdge

SpecShock == InitShock /\ [][NextShock]_vars

\* ------------------------------------------------------- claims on SpecShock
\* C20: a remove-agent shock (named or random) on a target that can be resolved
\* empties that agent's position and removes exactly that agent from the live
\* agents (one fewer), and leaves the node set and the edge set of the topology
\* unchanged.
C20_RemoveAgentKeepsTopology ==
    (ret.who \in {"RemovePlayer", "RemoveRandomPlayer"} /\ Present(ret.before, ret.node)) =>
        LET pos == PosOf(ret.before, ret.node)
            a == ret.before._nodes[pos + 1]
        IN  /\ ret.raised = NoRaise
            /\ sg._nodes[pos + 1] = NoAgent
            /\ LiveAgents(sg) = LiveAgents(ret.before) \ {a}
            /\ num_nodes(sg) = num_nodes(ret.before) - 1
            /\ sg.nx_nodes = ret.before.nx_nodes
            /\ sg.nx_edges = ret.before.nx_edges

\* C21: remove shocks are safe on a degenerate state: RemovePlayer on a target
\* that was already removed, and RemoveRandomPlayer when no agent is left, change
\* nothing and raise nothing; RemovePlayer applied twice for the same agent
\* leaves the state the first application left.
C21_RemoveShocksSafeOnDegenerateState ==
    /\ (ret.who = "RemovePlayer" /\ ~Present(ret.before, ret.node)) =>
          (ret.raised = NoRaise /\ sg = ret.before)
    /\ (ret.who = "RemoveRandomPlayer" /\ LiveAgents(ret.before) = {}) =>
          (ret.raised = NoRaise /\ sg = ret.before)
    /\ \A h \in Handles(sg) :
          Present(sg, h) =>
             \A r1 \in RemovePlayerApply(sg, h) :
                \A r2 \in RemovePlayerApply(r1.sg, h) :
                   r2.raised = NoRaise /\ r2.sg = r1.sg

\* C24: SwapEdge(pivot, v, w), for any pivot, v and w, leaves the number of
\* nodes and the number of edges of the graph unchanged.
C24_SwapEdgeKeepsCounts ==
    \A pivot_u \in Handles(sg), v \in Handles(sg), w \in Handles(sg) :
        LET o == SwapEdgeApply(sg, pivot_u, v, w)
        IN  /\ num_nodes(o.sg) = num_nodes(sg)
            /\ num_edges(o.sg) = num_edges(sg)


\* ================================================================ edge shocks
\* MaxAttempts bounds the max_attempts argument of the random edge shocks
MaxAttempts == 2

\* the candidate search of AddRandomEdge and SwapRandomEdge:
\*     while w == u or w in neighs:
\*         if attempts == max_attempts: (give up)
\*         w = select_random_node(); attempts += 1
\* gives the candidates it can end on with the number of draws made, NoAgent
\* standing for the None of giving up
RECURSIVE SearchCandidateDrawsFirst(_, _, _, _, _, _)
SearchCandidateDrawsFirst(g, u, neighs, w, attempts, max_attempts) ==
    IF w = u \/ w \in neighs
    THEN UNION {IF attempts = max_attempts
                THEN {[w |-> NoAgent, attempts |-> attempts + 1]}
                ELSE SearchCandidateDrawsFirst(g, u, neighs, x, attempts + 1, max_attempts)
                   : x \in select_random_node(g)}
    ELSE {[w |-> w, attempts |-> attempts]}

RECURSIVE SearchCandidate(_, _, _, _, _, _)
SearchCandidate(g, u, neighs, w, attempts, max_attempts) ==
    IF w = u \/ w \in neighs
    THEN IF attempts = max_attempts
         THEN {[w |-> NoAgent, attempts |-> attempts]}
         ELSE UNION {SearchCandidate(g, u, neighs, x, attempts + 1, max_attempts)
                        : x \in select_random_node(g)}
    ELSE {[w |-> w, attempts |-> attempts]}

\* RemoveRandomEdge(rng).apply(game)
RemoveRandomEdgeApply(g) ==
    IF select_random_node(g) = {}
    THEN {ShockOutcome("ValueError", g, FALSE, NoAgent, NoAgent, NoAgent, 0)}
    ELSE UNION {
        LET sel == select_random_neighbour(g, ByUuid(u))
        IN  IF sel.raised # NoRaise
            THEN {ShockOutcome(sel.raised, g, FALSE, u, NoAgent, NoAgent, 0)}
            ELSE {IF v = NoAgent
                  THEN ShockOutcome(NoRaise, g, FALSE, u, v, NoAgent, 0)
                  ELSE LET r == remove_edge(g, ByUuid(u), ByUuid(v))
                       IN  ShockOutcome(r.raised, r.sg, r.value = TRUE, u, v, NoAgent, 0)
                     : v \in sel.value}
        : u \in select_random_node(g)}

\* SwapRandomEdge(max_attempts, rng).apply(game)
SwapRandomEdgeKeepsOldEdge(g, max_attempts) ==
    IF select_random_node(g) = {}
    THEN {ShockOutcome("ValueError", g, FALSE, NoAgent, NoAgent, NoAgent, 0)}
    ELSE UNION {
        LET neighs == get_neighbours(g, ByUuid(pivot_u))
            sel == select_random_neighbour(g, ByUuid(pivot_u))
        IN  IF sel.raised # NoRaise
            THEN {ShockOutcome(sel.raised, g, FALSE, pivot_u, NoAgent, NoAgent, 0)}
            ELSE {IF v = NoAgent \/ c.w = NoAgent
                  THEN ShockOutcome(NoRaise, g, FALSE, pivot_u, v, c.w, c.attempts)
                  ELSE LET added == add_edge(g, ByUuid(pivot_u), ByUuid(c.w))
                       IN  ShockOutcome(added.raised, added.sg, TRUE, pivot_u, v, c.w, c.attempts)
                     : v \in sel.value,
                       c \in SearchCandidate(g, pivot_u, neighs.value, pivot_u, 0, max_attempts)}
        : pivot_u \in select_random_node(g)}

SwapRandomEdgeApply(g, max_attempts) ==
    IF select_random_node(g) = {}
    THEN {ShockOutcome("ValueError", g, FALSE, NoAgent, NoAgent, NoAgent, 0)}
    ELSE UNION {
        LET neighs == get_neighbours(g, ByUuid(pivot_u))
            sel == select_random_neighbour(g, ByUuid(pivot_u))
        IN  IF sel.raised # NoRaise
            THEN {ShockOutcome(sel.raised, g, FALSE, pivot_u, NoAgent, NoAgent, 0)}
            ELSE {IF v = NoAgent \/ c.w = NoAgent
                  THEN ShockOutcome(NoRaise, g, FALSE, pivot_u, v, c.w, c.attempts)
                  ELSE LET removed == remove_edge(g, ByUuid(pivot_u), ByUuid(v))
                           added == add_edge(removed.sg, ByUuid(pivot_u), ByUuid(c.w))
                       IN  ShockOutcome(added.raised, added.sg, TRUE, pivot_u, v, c.w, c.attempts)
                     : v \in sel.value,
                       c \in SearchCandidate(g, pivot_u, neighs.value, pivot_u, 0, max_attempts)}
        : pivot_u \in select_random_node(g)}

\* AddRandomEdge(max_attempts, rng).apply(game)
AddRandomEdgeApply(g, max_attempts) ==
    IF select_random_node(g) = {}
    THEN {ShockOutcome("ValueError", g, FALSE, NoAgent, NoAgent, NoAgent, 0)}
    ELSE UNION {
        LET neighs == get_neighbours(g, ByUuid(u))
        IN  {IF c.w = NoAgent
             THEN ShockOutcome(NoRaise, g, FALSE, u, NoAgent, c.w, c.attempts)
             ELSE LET added == add_edge(g, ByUuid(u), ByUuid(c.w))
                  IN  ShockOutcome(added.raised, added.sg, added.value = TRUE,
                                   u, NoAgent, c.w, c.attempts)
                : c \in SearchCandidate(g, u, neighs.value, u, 0, max_attempts)}
        : u \in select_random_node(g)}

\* =========================================================== SpecEdgeShock
\* A game on MaxAgents players, the first half of them savers (as in the fixture
\* of conftest.py) with a common homophily, then any sequence of edge shocks and
\* RemoveRandomPlayer shocks.
InitEdgeShock ==
    /\ AgentIdle
    /\ LoopIdle
    /\ state = "idle" /\ pc = "idle" /\ matches = <<>> /\ updates = <<>>
    /\ rng = "idle" /\ placement = "idle"
    /\ \E h \in NeighbourHomophilies :
          agents = [a \in 1..MaxAgents |->
                       init_saver_agent(a <= (MaxAgents + 1) \div 2, 0, h, 1, NoRule)]
    /\ \E g \in InitGraphs(MaxAgents) :
          sg = SimpleGraph(g, [i \in 1..MaxAgents |-> i])
    /\ ret = NoCall

ApplyRemoveRandomEdge ==
    /\ \E o \in RemoveRandomEdgeApply(sg) :
          /\ sg' = o.sg
          /\ ret' = [who |-> "RemoveRandomEdge", raised |-> o.raised, acted |-> o.acted,
                     draws |-> o.draws]
    /\ UNCHANGED log
    /\ GraphFrame

ApplySwapRandomEdge ==
    /\ \E max_attempts \in 0..MaxAttempts :
          \E o \in SwapRandomEdgeApply(sg, max_attempts) :
             /\ sg' = o.sg
             /\ ret' = [who |-> "SwapRandomEdge", raised |-> o.raised, acted |-> o.acted,
                        draws |-> o.draws]
    /\ UNCHANGED log
    /\ GraphFrame

ApplyAddRandomEdge ==
    /\ \E max_attempts \in 0..MaxAttempts :
          \E o \in AddRandomEdgeApply(sg, max_attempts) :
             /\ sg' = o.sg
             /\ ret' = [who |-> "AddRandomEdge", raised |-> o.raised, acted |-> o.acted,
                        draws |-> o.draws]
    /\ UNCHANGED log
    /\ GraphFrame

NextEdgeShock ==
    \/ ApplyRemoveRandomEdge
    \/ ApplySwapRandomEdge
    \/ ApplyAddRandomEdge
    \/ ApplyRemoveRandomPlayer

SpecEdgeShock == InitEdgeShock /\ [][NextEdgeShock]_vars

\* --------------------------------------------------- claims on SpecEdgeShock
\* the live nodes a shock on node u may connect u to: not u, not a neighbour of u
FreeFor(g, u) == LiveAgents(g) \ (LiveNeighboursOf(g, u) \cup {u})

\* C22: SwapRandomEdge leaves the number of nodes and the number of edges
\* unchanged in every case; when it acts it removes one existing edge (pivot, v)
\* and adds one edge (pivot, w) where w is a live node, not the pivot and not a
\* neighbour of the pivot (so a single such w is the one it rewires to); when the
\* pivot has no neighbour or no such w is found it changes nothing.
C22_SwapRandomEdgeRewiresOneEdge ==
    \A max_attempts \in 0..MaxAttempts :
        \A o \in SwapRandomEdgeApply(sg, max_attempts) :
            /\ num_nodes(o.sg) = num_nodes(sg)
            /\ num_edges(o.sg) = num_edges(sg)
            /\ o.sg._nodes = sg._nodes
            /\ ~o.acted => o.sg = sg
            /\ o.acted =>
                  LET p == PosOf(sg, ByUuid(o.u))
                      pv == PosOf(sg, ByUuid(o.v))
                      pw == PosOf(sg, ByUuid(o.w))
                  IN  /\ o.raised = NoRaise
                      /\ Edge(p, pv) \in sg.nx_edges
                      /\ o.w \in FreeFor(sg, o.u)
                      /\ Edge(p, pw) \notin sg.nx_edges
                      /\ o.sg.nx_edges = (sg.nx_edges \ {Edge(p, pv)}) \cup {Edge(p, pw)}
            /\ (o.u # NoAgent /\ (LiveNeighboursOf(sg, o.u) = {} \/ FreeFor(sg, o.u) = {})) =>
                  ~o.acted

\* a swap happened on the last try and left some player without a neighbour
C22_Witness ==
    /\ ret.who = "SwapRandomEdge"
    /\ ret.acted
    /\ ret.raised = NoRaise
    /\ ret.draws = MaxAttempts
    /\ \E u \in LiveAgents(sg) : LiveNeighboursOf(sg, u) = {}

C25_RemoveRandomEdgeRemovesOneEdge ==
    \A o \in RemoveRandomEdgeApply(sg) :
        /\ o.raised = NoRaise
        /\ o.sg._nodes = sg._nodes
        /\ IF sg.nx_edges # {}
           THEN /\ o.sg.nx_edges \subseteq sg.nx_edges
                /\ num_edges(o.sg) = num_edges(sg) - 1
           ELSE o.sg = sg

\* ================================================================ flip shocks
\* get_nodes(): the players still in the graph, in the order of their positions
get_nodes(g) == SelectSeq(g._nodes, LAMBDA n : n # NoAgent)

\* agent.flip_saver_property()
flip_saver_property(a) == [a EXCEPT !.is_saver = ~@]

\* FlipSavers(list_of_agents).apply(game): for each entry in turn,
\*     node = game.graph.get_node(agent); node.flip_saver_property()
\* FlipSaver(node) does the same for its one node.  An entry that get_node
\* cannot resolve, or resolves to None, ends the call with the exception.
RECURSIVE FlipSaversApply(_, _, _)
FlipSaversApply(g, ags, list_of_agents) ==
    IF list_of_agents = <<>> THEN [raised |-> NoRaise, agents |-> ags]
    ELSE LET node == get_node(g, Head(list_of_agents))
         IN  IF node.raised # NoRaise THEN [raised |-> node.raised, agents |-> ags]
             ELSE IF node.value = NoAgent THEN [raised |-> "AttributeError", agents |-> ags]
             ELSE FlipSaversApply(g,
                     [ags EXCEPT ![node.value] = flip_saver_property(@)],
                     Tail(list_of_agents))

\* FlipAllSavers().apply(game): for node in game.graph.get_nodes(): node.flip_saver_property()
FlipAllSaversApply(g, ags) ==
    [a \in DOMAIN ags |->
        IF \E i \in 1..Len(get_nodes(g)) : get_nodes(g)[i] = a
        THEN flip_saver_property(ags[a]) ELSE ags[a]]

\* game.create_filter_from_property("is_saver", value): one flag per player of
\* the game, in the order of get_nodes()
create_filter_from_property(g, ags, value) ==
    [i \in 1..Len(get_nodes(g)) |-> ags[get_nodes(g)[i]].is_saver = value]

\* HomogenizeSaversTo(target).apply(game):
\*     for agent, val in enumerate(filt):
\*         if not val: game.graph.get_node(agent).flip_saver_property()
\* so that the index into the filter is handed to get_node as a position
HomogenizeSaversToApply(g, ags, target) ==
    LET filt == create_filter_from_property(g, ags, target)
        misses == SelectSeq([i \in 1..Len(filt) |-> i], LAMBDA i : ~filt[i])
    IN  FlipSaversApply(g, ags, [k \in 1..Len(misses) |-> ByPos(misses[k] - 1)])

\* the lists a FlipSavers shock is given: up to two nodes, by uuid or position
FlipLists(g) ==
    {<<>>} \cup {<<h>> : h \in Handles(g)} \cup {<<h1, h2>> : h1 \in Handles(g), h2 \in Handles(g)}

\* ================================================================ SpecFlip
\* A game on MaxAgents players of any is_saver values, each after one match of
\* payoff 1, then any sequence of flip shocks, HomogenizeSaversTo shocks and
\* RemoveRandomPlayer shocks.
InitFlip ==
    /\ AgentIdle
    /\ LoopIdle
    /\ state = "idle" /\ pc = "idle" /\ matches = <<>> /\ updates = <<>>
    /\ rng = "idle" /\ placement = "idle"
    /\ \E sv \in [1..MaxAgents -> BOOLEAN] :
          agents = [a \in 1..MaxAgents |->
                       AgentUpdate(init_saver_agent(sv[a], 0, NoHomophily, 1, NoRule),
                                   PayoffOne, FALSE, 0)]
    /\ sg = SimpleGraph(PathGraph(MaxAgents), [i \in 1..MaxAgents |-> i])
    /\ ret = NoCall

FlipFrame ==
    /\ UNCHANGED <<state, pc, matches, updates, sg>>
    /\ UNCHANGED <<plan, time, shocks, shockIdx, nextRef, log, rng, placement>>
    /\ UNCHANGED agentVars

ApplyFlipSaver ==
    /\ \E h \in Handles(sg) :
          LET o == FlipSaversApply(sg, agents, <<h>>)
          IN  /\ agents' = o.agents
              /\ ret' = [who |-> "FlipSaver", raised |-> o.raised]
    /\ FlipFrame

\* FlipRandomSaver(rng).apply(game): select_random_node, then flip_saver_property
ApplyFlipRandomSaver ==
    /\ IF select_random_node(sg) = {}
       THEN /\ agents' = agents
            /\ ret' = [who |-> "FlipRandomSaver", raised |-> "ValueError"]
       ELSE \E a \in select_random_node(sg) :
               /\ agents' = [agents EXCEPT ![a] = flip_saver_property(@)]
               /\ ret' = [who |-> "FlipRandomSaver", raised |-> NoRaise]
    /\ FlipFrame

ApplyFlipSavers ==
    /\ \E l \in FlipLists(sg) :
          LET o == FlipSaversApply(sg, agents, l)
          IN  /\ agents' = o.agents
              /\ ret' = [who |-> "FlipSavers", raised |-> o.raised]
    /\ FlipFrame

ApplyFlipAllSavers ==
    /\ agents' = FlipAllSaversApply(sg, agents)
    /\ ret' = [who |-> "FlipAllSavers", raised |-> NoRaise]
    /\ FlipFrame

ApplyHomogenizeSaversTo ==
    /\ \E target \in BOOLEAN :
          LET o == HomogenizeSaversToApply(sg, agents, target)
          IN  /\ agents' = o.agents
              /\ ret' = [who |-> "HomogenizeSaversTo", raised |-> o.raised, target |-> target]
    /\ FlipFrame

NextFlip ==
    \/ ApplyFlipSaver
    \/ ApplyFlipRandomSaver
    \/ ApplyFlipSavers
    \/ ApplyFlipAllSavers
    \/ ApplyHomogenizeSaversTo
    \/ ApplyRemoveRandomPlayer

SpecFlip == InitFlip /\ [][NextFlip]_vars

\* ------------------------------------------------------- claims on SpecFlip
\* ags with the is_saver of exactly the agents of T inverted
WithFlipped(ags, T) ==
    [a \in DOMAIN ags |-> IF a \in T THEN [ags[a] EXCEPT !.is_saver = ~@] ELSE ags[a]]

Savers(g, ags) == {a \in LiveAgents(g) : ags[a].is_saver}

\* C26: flip shocks (FlipSaver, FlipRandomSaver, FlipSavers, FlipAllSavers)
\* invert is_saver of exactly the targeted live agents and change nothing else
\* (no score, no memory content, no other agent); FlipAllSavers swaps the saver
\* and non-saver counts, and applied twice it restores every is_saver value.
\* The lists taken here name no position twice.
C26_FlipsInvertExactlyTheTargets ==
    /\ \A l \in FlipLists(sg) :
          LET pos(i) == get_pos_from_node(sg, l[i]).value
              targets == {a \in LiveAgents(sg) :
                             \E i \in 1..Len(l) : sg._nodes[pos(i) + 1] = a}
          IN  (\A i \in 1..Len(l), j \in 1..Len(l) : i # j => pos(i) # pos(j)) =>
                 FlipSaversApply(sg, agents, l).agents = WithFlipped(agents, targets)
    /\ LET all == FlipAllSaversApply(sg, agents)
       IN  /\ all = WithFlipped(agents, LiveAgents(sg))
           /\ Cardinality(Savers(sg, all)) = num_nodes(sg) - Cardinality(Savers(sg, agents))
           /\ FlipAllSaversApply(sg, all) = agents
    /\ \A a \in select_random_node(sg) :
          [agents EXCEPT ![a] = flip_saver_property(@)] = WithFlipped(agents, {a})

\* C27: after HomogenizeSaversTo(target), on any reachable state (one where
\* agents were removed earlier included), every live agent has is_saver = target;
\* agents already at the target are not changed, and a second application
\* changes nothing.
C27_HomogenizeReachesTarget ==
    \A target \in BOOLEAN :
        LET o == HomogenizeSaversToApply(sg, agents, target)
        IN  /\ o.raised = NoRaise
            /\ \A a \in LiveAgents(sg) : o.agents[a].is_saver = target
            /\ o.agents = WithFlipped(agents, {a \in LiveAgents(sg) : agents[a].is_saver # target})
            /\ HomogenizeSaversToApply(sg, o.agents, target).agents = o.agents

\* ======================================================= differential shocks
\* ChangeDifferentialInefficient(new).apply(game):
\*     payoff_sn = 1 - new
\*     payoff_matrix[("saver", "non-saver")] = (payoff_sn, 1)
\*     payoff_matrix[("non-saver", "saver")] = (1, payoff_sn)
\* log keeps the shocks applied, each with the matrix and the agents it found
ApplyChangeDifferentialInefficientOneEntry ==
    /\ pc = "call"
    /\ Len(log) < MaxShocks
    /\ \E new \in {DifferentialInefficient, PayoffOne \div 2} :
          LET payoff_sn == PayoffOne - new
          IN  /\ state' = [state EXCEPT
                    !.payoff_strategy.payoff_matrix[<<TRUE, FALSE>>] = <<payoff_sn, PayoffOne>>]
              /\ log' = Append(log, [ev |-> "ChangeDifferentialInefficient", new |-> new,
                                     matrix |-> state.payoff_strategy.payoff_matrix,
                                     agents |-> agents])
    /\ UNCHANGED <<agents, pc, matches, updates, plan, time, shocks, shockIdx, nextRef>>
    /\ UNCHANGED <<agentVars, libVars>>

ApplyChangeDifferentialInefficient ==
    /\ pc = "call"
    /\ Len(log) < MaxShocks
    /\ \E new \in {DifferentialInefficient, PayoffOne \div 2} :
          LET payoff_sn == PayoffOne - new
          IN  /\ state' = [state EXCEPT
                    !.payoff_strategy.payoff_matrix[<<TRUE, FALSE>>] = <<payoff_sn, PayoffOne>>,
                    !.payoff_strategy.payoff_matrix[<<FALSE, TRUE>>] = <<PayoffOne, payoff_sn>>]
              /\ log' = Append(log, [ev |-> "ChangeDifferentialInefficient", new |-> new,
                                     matrix |-> state.payoff_strategy.payoff_matrix,
                                     agents |-> agents])
    /\ UNCHANGED <<agents, pc, matches, updates, plan, time, shocks, shockIdx, nextRef>>
    /\ UNCHANGED <<agentVars, libVars>>

\* ChangeDifferentialEfficient(new).apply(game):
\*     payoff_ss = 1 + new; payoff_matrix[("saver", "saver")] = (payoff_ss, payoff_ss)
ApplyChangeDifferentialEfficient ==
    /\ pc = "call"
    /\ Len(log) < MaxShocks
    /\ \E new \in {0, 2 * DifferentialEfficient} :
          LET payoff_ss == PayoffOne + new
          IN  /\ state' = [state EXCEPT
                    !.payoff_strategy.payoff_matrix[<<TRUE, TRUE>>] = <<payoff_ss, payoff_ss>>]
              /\ log' = Append(log, [ev |-> "ChangeDifferentialEfficient", new |-> new,
                                     matrix |-> state.payoff_strategy.payoff_matrix,
                                     agents |-> agents])
    /\ UNCHANGED <<agents, pc, matches, updates, plan, time, shocks, shockIdx, nextRef>>
    /\ UNCHANGED <<agentVars, libVars>>

\* ========================================================= SpecDifferential
\* A strategy and a pair of agents as in SpecPayoff, up to MaxShocks differential
\* shocks, then one call of play_match.
NextDifferential ==
    \/ ApplyChangeDifferentialEfficient
    \/ ApplyChangeDifferentialInefficient
    \/ PlayMatch

SpecDifferential == InitPayoff /\ [][NextDifferential]_vars

\* ------------------------------------------------ claims on SpecDifferential
\* the differential in force: the value of the last shock of that kind, or the
\* one the strategy was built with
InForce(ev, built) ==
    LET S == {i \in 1..Len(log) : log[i].ev = ev}
    IN  IF S = {} THEN built ELSE log[CHOOSE i \in S : \A j \in S : j <= i].new

\* C28: ChangeDifferentialEfficient(e) sets the saver/saver entry of the payoff
\* matrix to (1 + e, 1 + e); ChangeDifferentialInefficient(i) sets saver/non-saver
\* to (1 - i, 1) and non-saver/saver to (1, 1 - i); each leaves every other entry
\* and all agents unchanged, and the payoffs computed afterwards use the new
\* entries.
C28_DifferentialShocksSetTheirEntries ==
    /\ \A n \in 1..Len(log) :
          LET before == log[n].matrix
              after == IF n < Len(log) THEN log[n + 1].matrix
                       ELSE state.payoff_strategy.payoff_matrix
              one == PayoffOne
          IN  /\ log[n].agents = agents
              /\ log[n].ev = "ChangeDifferentialEfficient" =>
                    /\ after[<<TRUE, TRUE>>] = <<one + log[n].new, one + log[n].new>>
                    /\ \A k \in (BOOLEAN \X BOOLEAN) \ {<<TRUE, TRUE>>} : after[k] = before[k]
              /\ log[n].ev = "ChangeDifferentialInefficient" =>
                    /\ after[<<TRUE, FALSE>>] = <<one - log[n].new, one>>
                    /\ after[<<FALSE, TRUE>>] = <<one, one - log[n].new>>
                    /\ after[<<TRUE, TRUE>>] = before[<<TRUE, TRUE>>]
                    /\ after[<<FALSE, FALSE>>] = before[<<FALSE, FALSE>>]
    /\ (pc = "paid" /\ ~state.payoff_strategy.stochastic) =>
          \A i \in 1..2 :
             LET me == agents[i].is_saver
                 other == agents[3 - i].is_saver
                 eff == InForce("ChangeDifferentialEfficient", state.differential_efficient)
                 ineff == InForce("ChangeDifferentialInefficient", state.differential_inefficient)
                 entry == IF me /\ other THEN PayoffOne + eff
                          ELSE IF me THEN PayoffOne - ineff
                          ELSE PayoffOne
             IN  ret.payoffs[i] = entry + agents[i].min_specialization

\* a saver met a non-saver after both kinds of shock and was paid by the new entry
C28_Witness ==
    /\ pc = "paid"
    /\ ~state.payoff_strategy.stochastic
    /\ \E n \in 1..Len(log) : log[n].ev = "ChangeDifferentialEfficient"
    /\ \E n \in 1..Len(log) : log[n].ev = "ChangeDifferentialInefficient"
    /\ ~agents[1].is_saver /\ agents[2].is_saver
    /\ ret.payoffs[2] # Deterministic(2)
    /\ ret.payoffs[2] = PayoffOne \div 2 + agents[2].min_specialization

\* =============================================================== SpecSparse
\* play_game on a game whose graph is a SimpleGraph: MaxAgents players of any
\* common homophily were put on a graph without edges, a path or a complete
\* graph, some of them were removed again, and the plan has no step or MaxSteps
\* steps, and no shocks.
\* the positions select_matches samples from: those that hold a player
EveryPosition(g) == {i - 1 : i \in 1..Len(g._nodes)}

LivePositions(g) == {i - 1 : i \in {i \in 1..Len(g._nodes) : g._nodes[i] # NoAgent}}

\* the graph after remove_node on every position of E
RECURSIVE RemovedFrom(_, _)
RemovedFrom(g, E) ==
    IF E = {} THEN g
    ELSE LET p == CHOOSE x \in E : TRUE
         IN  RemovedFrom(remove_node(g, ByPos(p)).sg, E \ {p})

InitSparse ==
    /\ AgentIdle
    /\ \E h \in NeighbourHomophilies :
          agents = [a \in 1..MaxAgents |->
                       init_saver_agent(a <= (MaxAgents + 1) \div 2, 0, h, 1, NoRule)]
    /\ \E g \in InitGraphs(MaxAgents), E \in SUBSET (0..MaxAgents - 1) :
          sg = RemovedFrom(SimpleGraph(g, [i \in 1..MaxAgents |-> i]), E)
    /\ state = [ref |-> 0,
                payoff_strategy |->
                    payoff_strategy(FALSE, DifferentialInefficient, DifferentialEfficient)]
    /\ \E n \in {0, MaxSteps} : plan = GamePlan(n, ShocksDict(<<>>, <<>>))
    /\ time = 0
    /\ shocks = <<>>
    /\ shockIdx = 0
    /\ nextRef = 1
    /\ log = <<>>
    /\ pc = "for"
    /\ matches = <<>>
    /\ updates = <<>>
    /\ rng = "idle" /\ placement = "idle" /\ ret = NoCall

\* play_step(time, state): floor(N / 2) occupied positions are sampled, the graph
\* picks a neighbour for the occupant of each; a pick that raises ends the run
PlayStepSparse ==
    /\ pc = "shocks"
    /\ shockIdx > Len(shocks)
    /\ LET k == num_nodes(sg) \div 2
           st == [placements |-> [p \in 0..Len(sg._nodes) - 1 |-> sg._nodes[p + 1]]]
       IN  \E d \in [1..k -> LivePositions(sg)] :
              LET pick == [i \in 1..k |-> select_random_neighbour(sg, ByPos(d[i]))]
                  bad == {i \in 1..k : pick[i].raised # NoRaise}
              IN  IF bad # {}
                  THEN LET i == CHOOSE x \in bad : \A y \in bad : x <= y
                       IN  /\ pc' = "raised"
                           /\ ret' = [who |-> "play_step", raised |-> pick[i].raised,
                                      node |-> d[i]]
                           /\ UNCHANGED <<agents, matches, updates, log>>
                  ELSE \E c \in [1..k -> (1..MaxAgents) \cup {NoAgent}] :
                          /\ \A i \in 1..k : c[i] \in pick[i].value
                          /\ LET ms == Pairs(st, d, c, 1)
                                 upd == Updates(state.payoff_strategy, ms,
                                                [i \in 1..Len(ms) |-> 2], 1)
                             IN  /\ matches' = ms
                                 /\ updates' = upd
                                 /\ agents' = ApplyUpdates(agents, upd, 1, time)
                                 /\ log' = Append(log, [ev |-> "select", time |-> time,
                                                        idx |-> 0, who |-> 0, arg |-> 0,
                                                        ref |-> state.ref])
                          /\ pc' = "yield"
                          /\ ret' = [who |-> "play_step", raised |-> NoRaise,
                                     d |-> d, c |-> c]
    /\ UNCHANGED <<state, plan, time, shocks, shockIdx, nextRef>>
    /\ UNCHANGED <<agentVars, rng, sg, placement>>

NextSparse == ForStep \/ ForEnd \/ PlayStepSparse \/ Yield

SpecSparse == InitSparse /\ [][NextSparse]_vars

\* ------------------------------------------------------ claims on SpecSparse
\* the occupant of position p has no live neighbour
Lonely(g, p) == LiveNeighboursOf(g, g._nodes[p + 1]) = {}

IntegerHomophily == \E a \in DOMAIN agents : agents[a].homophily.set /\ agents[a].homophily.is_int

NoWeights == <<>>

MemoryRule(kind, memory_length, fracNum, weights) ==
    [kind |-> kind, memory_length |-> memory_length, fracNum |-> fracNum, weights |-> weights]

\* every rule object a constructor call returns: __init__ rejects a negative
\* memory_length and a missing 'fraction' or 'weights' argument, nothing else
MemoryRules ==
    {MemoryRule(k, n, 0, NoWeights) :
        k \in {"AllPastMemoryRule", "AnyPastMemoryRule", "AverageMemoryRule"},
        n \in 0..MaxMemoryLength}
    \cup {MemoryRule("FractionMemoryRule", n, f, NoWeights) :
            n \in 0..MaxMemoryLength, f \in 0..FracDen}
    \cup {MemoryRule("WeightedMemoryRule", n, f, [i \in 1..m |-> i]) :
            n \in 0..MaxMemoryLength, f \in 0..FracDen, m \in 0..MaxMemoryLength}

\* sum(memory) of a deque of booleans
RECURSIVE SumFlags(_)
SumFlags(memory) ==
    IF memory = <<>> THEN 0
    ELSE (IF Head(memory) THEN 1 ELSE 0) + SumFlags(Tail(memory))

\* sum(m * w for m, w in zip(memory, weights))
RECURSIVE WeightedSum(_, _)
WeightedSum(memory, weights) ==
    IF memory = <<>> THEN 0
    ELSE (IF Head(memory) THEN Head(weights) ELSE 0) + WeightedSum(Tail(memory), Tail(weights))

RECURSIVE SumSeq(_)
SumSeq(w) == IF w = <<>> THEN 0 ELSE Head(w) + SumSeq(Tail(w))

\* rule.should_update(memory)
should_update(rule, memory) ==
    LET n == rule.memory_length
        total == SumFlags(memory)
        yes(b) == [raised |-> NoRaise, value |-> b]
    IN  CASE rule.kind = "AllPastMemoryRule" -> yes(Len(memory) = n /\ total = 0)
          [] rule.kind = "AnyPastMemoryRule" -> yes(Len(memory) = n /\ total < n)
          [] rule.kind = "AverageMemoryRule" -> yes(Len(memory) = n /\ 2 * total < n)
          [] rule.kind = "FractionMemoryRule" ->
                IF Len(memory) # n THEN yes(FALSE)
                ELSE IF rule.fracNum = 0 THEN yes(total = 0)
                ELSE yes(total * FracDen < n * rule.fracNum)
          [] rule.kind = "WeightedMemoryRule" ->
                IF Len(rule.weights) # n THEN [raised |-> "ValueError", value |-> FALSE]
                ELSE IF Len(memory) # n THEN yes(FALSE)
                ELSE IF SumSeq(rule.weights) = 0
                     THEN [raised |-> "ZeroDivisionError", value |-> FALSE]
                ELSE yes(WeightedSum(memory, rule.weights) * FracDen
                            < rule.fracNum * SumSeq(rule.weights))

\* the lists of flags of up to MaxMemoryLength + 1 entries
Windows == UNION {[1..n -> BOOLEAN] : n \in 0..MaxMemoryLength + 1}

\* ================================================================= SpecRule
\* A SaverProperties object with a memory deque and a rule of any kind;
\* should_update is called on any window, and properties.update(payoff=...,
\* successful_round=..., update_rule=rule) is called up to MaxUpdates times.
InitRule ==
    /\ \E sv \in BOOLEAN, maxlen \in 1..MaxMemoryLength, rule \in MemoryRules :
          ag = [is_saver |-> sv, savings |-> 0, memory |-> <<>>, maxlen |-> maxlen,
                rule |-> rule]
    /\ req = 0 /\ paid = 0 /\ nUpd = 0 /\ nFlips = 0
    /\ allLost = TRUE /\ flippedAt = {} /\ hist = <<>> /\ last = NoCall
    /\ GameIdle
    /\ rng = "idle" /\ sg = "idle" /\ placement = "idle"
    /\ ret = NoCall

\* rule.should_update(memory), called directly on the rule of a fresh object
ShouldUpdate ==
    /\ nUpd = 0
    /\ \E memory \in Windows :
          LET r == should_update(ag.rule, memory)
          IN  ret' = [who |-> "should_update", memory |-> memory,
                      raised |-> r.raised, value |-> r.value, before |-> ag]
    /\ UNCHANGED <<agentVars, gameVars, loopVars, rng, sg, placement>>

\* SaverProperties.update(payoff=payoff, successful_round=flag, update_rule=rule)
PropertiesUpdate ==
    /\ nUpd < MaxUpdates
    /\ \E flag \in BOOLEAN :
          LET a1 == [ag EXCEPT !.savings = @ + PayoffOne,
                               !.memory = DequeAppend(@, flag, ag.maxlen)]
              r == should_update(a1.rule, a1.memory)
          IN  /\ ag' = IF r.raised = NoRaise /\ r.value
                       THEN [a1 EXCEPT !.is_saver = ~@, !.memory = <<>>]
                       ELSE a1
              /\ ret' = [who |-> "update", memory |-> a1.memory,
                         raised |-> r.raised, value |-> r.value, before |-> ag]
    /\ nUpd' = nUpd + 1
    /\ UNCHANGED <<req, paid, nFlips, allLost, flippedAt, hist, last>>
    /\ UNCHANGED <<gameVars, loopVars, rng, sg, placement>>

NextRule == ShouldUpdate \/ PropertiesUpdate

SpecRule == InitRule /\ [][NextRule]_vars

\* -------------------------------------------------------- claims on SpecRule
\* the number of lost matches in a window of lost flags
Lost(memory) == Cardinality({i \in 1..Len(memory) : memory[i]})

\* the last call of should_update, made directly or by update
Called == ret.who \in {"should_update", "update"}

\* C31: on a window of lost flags, AllPastMemoryRule.should_update is true iff
\* the window is full and every entry is True, and AnyPastMemoryRule.should_update
\* is true iff the window is full and at least one entry is True.
C31_AllAndAnyPastOnLostFlags ==
    Called =>
       LET rule == ret.before.rule
           full == Len(ret.memory) = rule.memory_length
       IN  /\ rule.kind = "AllPastMemoryRule" =>
                 (ret.raised = NoRaise
                  /\ ret.value = (full /\ Lost(ret.memory) = Len(ret.memory)))
           /\ rule.kind = "AnyPastMemoryRule" =>
                 (ret.raised = NoRaise /\ ret.value = (full /\ Lost(ret.memory) > 0))

\* C32: on a window of lost flags, FractionMemoryRule(fraction=f).should_update
\* is true iff the window is full and the number of True entries is at least
\* f * memory_length; AverageMemoryRule is the case f = 0.5.
C32_FractionOfLostFlags ==
    Called =>
       LET rule == ret.before.rule
           full == Len(ret.memory) = rule.memory_length
       IN  /\ rule.kind = "FractionMemoryRule" =>
                 (ret.raised = NoRaise
                  /\ ret.value = (full /\ Lost(ret.memory) * FracDen
                                            >= rule.fracNum * rule.memory_length))
           /\ rule.kind = "AverageMemoryRule" =>
                 (ret.raised = NoRaise
                  /\ ret.value = (full /\ 2 * Lost(ret.memory) >= rule.memory_length))

\* C33: a weighted rule whose weights do not have the length of its memory is
\* rejected when it is constructed: no rule object has such weights, and no
\* update of an agent ends with that error after it changed the agent.
C33_WeightsCheckedAtConstruction ==
    /\ ag.rule.kind = "WeightedMemoryRule" => Len(ag.rule.weights) = ag.rule.memory_length
    /\ (ret.who = "update" /\ ret.raised = "ValueError") => ag = ret.before

\* ================================================================ SpecTraits
\* data.SaverTraits(group=..., min_specialization=..., income_per_period=...,
\* homophily=...): a pydantic model whose fields carry types only; a number is
\* accepted whatever its value
SaverTraitsInit(min_specialization, homophily) ==
    [raised |-> NoRaise,
     traits |-> [min_specialization |-> min_specialization, homophily |-> homophily]]

\* the numbers a caller can pass: inside, on the border of and outside [0, 1]
SpecializationInputs == {0 - PayoffOne \div 10, 0, PayoffOne \div 10, PayoffOne, 2 * PayoffOne}

HomophilyInputs ==
    {NoHomophily} \cup {[set |-> TRUE, num |-> k, is_int |-> FALSE] : k \in (0 - 1)..HomDen + 1}

\* Two agents built by init_saver_agent from any such numbers (every call whose
\* SaverTraits construction did not raise), a deterministic strategy, and one
\* call of play_match on the pair.
InitTraits ==
    /\ AgentIdle
    /\ LoopIdle
    /\ \E sv \in [1..2 -> BOOLEAN], ms \in SpecializationInputs, h \in HomophilyInputs :
          /\ SaverTraitsInit(ms, h).raised = NoRaise
          /\ agents = [a \in 1..2 |->
                          LET t == SaverTraitsInit(ms, h).traits
                          IN  init_saver_agent(sv[a], t.min_specialization, t.homophily, 1, NoRule)]
    /\ state = [payoff_strategy |->
                    payoff_strategy(FALSE, DifferentialInefficient, DifferentialEfficient),
                differential_inefficient |-> DifferentialInefficient,
                differential_efficient |-> DifferentialEfficient]
    /\ rng = "idle"
    /\ pc = "call"
    /\ matches = << <<1, 2>> >>
    /\ updates = <<>>
    /\ sg = "idle" /\ placement = "idle" /\ ret = NoCall

SpecTraits == InitTraits /\ [][NextPayoff]_vars

\* ------------------------------------------------------ claims on SpecTraits
\* C34: traits with min_specialization outside [0, 1] or a homophily outside
\* [0, 1] are rejected when they are constructed, so no agent of a reachable
\* state carries one, agents built by init_saver_agent included.
C34_TraitsWithinRange ==
    \A a \in DOMAIN agents :
       /\ agents[a].min_specialization \in 0..PayoffOne
       /\ agents[a].homophily.set => agents[a].homophily.num \in 0..HomDen

\* ================================================================= SpecSigma
\* The scale of the log-normal noise.  The numbers are kept exact: a variance is
\* one of the values x * (x - 1) with x an integer, so that the root the code
\* takes is an integer; the scale sigma is carried as exp(sigma^2), which
\* determines it; a mean mu is carried as the k with mu = k * ln(2) / 2, so that
\* exp(2 * mu) = 2^k.
Variances == {2, 6, 12}
Means == {0, 1}

Exp2Mu(k) == 2 ^ k

\* the entry of _sigma for two non-savers: a value that is never used
Dummy == 0 - 1

Sqrt(n) == CHOOSE r \in 0..n : r * r = n

\* param_var = np.log(1 + np.sqrt(1 + 4 * var)) - np.log(2); sigma = np.sqrt(param_var):
\* exp(sigma^2) = (1 + sqrt(1 + 4 * var)) / 2
ExpSigma2(var) == (1 + Sqrt(1 + 4 * var)) \div 2

\* CooperationStrategy.__init__(stochastic=True, differential_inefficient=...,
\* differential_efficient=..., dist_mean=..., dist_sigma_func=...): _mean and _sigma
cooperation_strategy(differential_inefficient, differential_efficient, dist_mean, dist_sigma_func) ==
    LET ps == payoff_strategy(TRUE, differential_inefficient, differential_efficient)
        payoff_ss == PayoffOne + differential_efficient
        payoff_sn == PayoffOne - differential_inefficient
        var_ss == dist_sigma_func[payoff_ss]
        var_sn == dist_sigma_func[payoff_sn]
    IN  [stochastic |-> TRUE,
         payoff_matrix |-> ps.payoff_matrix,
         _mean |-> dist_mean,
         _sigma |-> [k \in BOOLEAN \X BOOLEAN |->
                        IF k[1] /\ k[2] THEN ExpSigma2(var_ss)
                        ELSE IF k[1] \/ k[2] THEN ExpSigma2(var_sn)
                        ELSE Dummy],
         dist_sigma_func |-> dist_sigma_func]

\* A stochastic strategy built with any differentials, mean and variance
\* function, and a pair of agents of any kinds; then one noise draw of
\* calculate_payoff.
InitSigma ==
    /\ AgentIdle
    /\ LoopIdle
    /\ \E sv \in [1..2 -> BOOLEAN] :
          agents = [a \in 1..2 |-> init_saver_agent(sv[a], 0, NoHomophily, 1, NoRule)]
    /\ \E ineff \in Inefficiencies, eff \in Efficiencies, m \in Means :
          \E f \in [{PayoffOne + eff, PayoffOne - ineff} -> Variances] :
             state = cooperation_strategy(ineff, eff, m, f)
    /\ rng = "idle"
    /\ pc = "call"
    /\ matches = << <<1, 2>> >>
    /\ updates = <<>>
    /\ sg = "idle" /\ placement = "idle" /\ ret = NoCall

\* calculate_payoff: draw = lognormal(mean=0, sigma=self._sigma[saver_traits]);
\* ret keeps the parameters of the distribution drawn from and its variance,
\* exp(2 * mean + sigma^2) * (exp(sigma^2) - 1)
DrawNoise ==
    /\ pc = "call"
    /\ LET key == <<agents[matches[1][1]].is_saver, agents[matches[1][2]].is_saver>>
           x == state._sigma[key]
       IN  ret' = [who |-> "lognormal", key |-> key, mean |-> 0, exp_sigma2 |-> x,
                   variance |-> IF x = Dummy THEN Dummy ELSE Exp2Mu(0) * x * (x - 1)]
    /\ pc' = "paid"
    /\ UNCHANGED <<state, agents, matches, updates, rng, sg, placement>>
    /\ UNCHANGED <<agentVars, loopVars>>

SpecSigma == InitSigma /\ [][DrawNoise]_vars

\* ------------------------------------------------------- claims on SpecSigma
\* the base payoff of the saver of a matrix entry
BasePayoff(key) == IF key[1] THEN state.payoff_matrix[key][1] ELSE state.payoff_matrix[key][2]

\* C35: for each saver-involving matrix entry the scale sigma in use solves
\* var = exp(2 * mu + sigma^2) * (exp(sigma^2) - 1), with var the value of
\* dist_sigma_func at the entry's base payoff and mu the configured mean, so that
\* the variance of the noise drawn equals dist_sigma_func(base payoff).
C35_SigmaSolvesVarianceEquation ==
    /\ \A key \in (BOOLEAN \X BOOLEAN) \ {<<FALSE, FALSE>>} :
          LET x == state._sigma[key]
          IN  state.dist_sigma_func[BasePayoff(key)] = Exp2Mu(state._mean) * x * (x - 1)
    /\ (pc = "paid" /\ ret.key # <<FALSE, FALSE>>) =>
          ret.variance = state.dist_sigma_func[BasePayoff(ret.key)]

\* =============================================================== SpecRemoval
\* play_game of MaxSteps steps on a game whose graph is a SimpleGraph (a path
\* of MaxAgents players, half of them savers), with RemoveRandomPlayer shocks
\* applied between the steps.
InitRemoval ==
    /\ AgentIdle
    /\ agents = [a \in 1..MaxAgents |->
                    init_saver_agent(a <= (MaxAgents + 1) \div 2, 0, NoHomophily, 1, NoRule)]
    /\ sg = SimpleGraph(PathGraph(MaxAgents), [i \in 1..MaxAgents |-> i])
    /\ state = [ref |-> 0,
                payoff_strategy |->
                    payoff_strategy(FALSE, DifferentialInefficient, DifferentialEfficient)]
    /\ plan = GamePlan(MaxSteps, ShocksDict(<<>>, <<>>))
    /\ time = 0
    /\ shocks = <<>>
    /\ shockIdx = 0
    /\ nextRef = 1
    /\ log = <<>>
    /\ pc = "for"
    /\ matches = <<>>
    /\ updates = <<>>
    /\ rng = "idle" /\ placement = "idle" /\ ret = NoCall

NextRemoval == ForStep \/ ForEnd \/ PlayStepSparse \/ Yield \/ ApplyRemoveRandomPlayer

SpecRemoval == InitRemoval /\ [][NextRemoval]_vars

\* ----------------------------------------------------- claims on SpecRemoval
Removed(g) == (1..MaxAgents) \ LiveAgents(g)

\* C36: once an agent has been removed by a remove-agent shock, no step played
\* afterwards touches it: its score, memory and is_saver stay as they are, it is
\* in no pair of the matches of a later step, and no draw of a later step ends
\* on its emptied position.
C36_RemovedAgentIsOutOfPlay ==
    [][\A a \in Removed(sg) :
          /\ a \in Removed(sg')
          /\ agents'[a] = agents[a]
          /\ (pc = "shocks" /\ pc' = "yield") =>
                \A j \in 1..Len(matches') : a # matches'[j][1] /\ a # matches'[j][2]
          /\ (pc = "shocks" /\ pc' = "raised") =>
                sg._nodes[ret'.node + 1] # NoAgent]_vars

\* a player that had played was removed, and the step after the removal matched
\* two of the remaining players
C36_Witness ==
    /\ pc = "yield"
    /\ time >= 1
    /\ matches # <<>>
    /\ \E a \in Removed(sg) :
          /\ agents[a].memory # <<>>
          /\ agents[a].memory[1].time < time
          /\ \A j \in 1..Len(matches) : a # matches[j][1] /\ a # matches[j][2]

\* ============================================================ SpecCapacity
\* The memory of traits.py: SaverTraits keeps `updates_from_n_last_games` and,
\* when that is positive at construction, a deque of success flags whose maxlen
\* is that number.  The memory-length shocks call change_memory_length on the
\* node; the agent's rule keeps its own memory_length.
NoDeque == [set |-> FALSE]

Deque(items, maxlen) == [set |-> TRUE, items |-> items, maxlen |-> maxlen]

\* the rules the agents of these runs are built with
CapacityRules ==
    {MemoryRule(k, n, 0, NoWeights) :
        k \in {"AllPastMemoryRule", "AnyPastMemoryRule"}, n \in 1..MaxMemoryLength}

\* SaverTraits(is_saver=..., updates_from_n_last_games=n) with the rule of the agent
InitCapacity ==
    /\ \E sv \in BOOLEAN, n \in 0..MaxMemoryLength, rule \in CapacityRules :
          /\ ag = [is_saver |-> sv, updates_from_n_last_games |-> n,
                   memory |-> IF n > 0 THEN Deque(<<>>, n) ELSE NoDeque,
                   rule |-> rule]
          /\ req = n
    /\ paid = 0 /\ nUpd = 0 /\ nFlips = 0
    /\ allLost = TRUE /\ flippedAt = {} /\ hist = <<>> /\ last = NoCall
    /\ GameIdle
    /\ LibIdle

\* SaverTraits.update(successful_round=flag, update_rule=rule)
TraitsUpdate ==
    /\ nUpd < MaxUpdates
    /\ \E flag \in BOOLEAN :
          IF ag.updates_from_n_last_games = 0
          THEN /\ ag' = ag
               /\ ret' = [who |-> "update", raised |-> NoRaise]
          ELSE IF ~ag.memory.set
          THEN /\ ag' = ag
               /\ ret' = [who |-> "update", raised |-> "AttributeError"]
          ELSE LET memory == DequeAppend(ag.memory.items, flag, ag.memory.maxlen)
                   r == should_update(ag.rule, memory)
               IN  /\ ag' = IF r.value
                            THEN [ag EXCEPT !.is_saver = ~@,
                                            !.memory = Deque(<<>>, ag.updates_from_n_last_games)]
                            ELSE [ag EXCEPT !.memory.items = memory]
                   /\ ret' = [who |-> "update", raised |-> r.raised]
    /\ nUpd' = nUpd + 1
    /\ UNCHANGED <<req, paid, nFlips, allLost, flippedAt, hist, last>>
    /\ UNCHANGED <<gameVars, loopVars, rng, sg, placement>>

\* ChangeRandomPlayerMemoryLength(n).apply / ChangeAllPlayersMemoryLength(n).apply,
\* seen from the node they reach: node.change_memory_length(n)
ApplyChangeMemoryLength ==
    /\ nFlips < MaxShocks
    /\ \E n \in 0..MaxMemoryLength :
          /\ ag' = [ag EXCEPT !.updates_from_n_last_games = n]
          /\ ret' = [who |-> "change_memory_length", raised |-> NoRaise]
    /\ nFlips' = nFlips + 1
    /\ UNCHANGED <<req, paid, nUpd, allLost, flippedAt, hist, last>>
    /\ UNCHANGED <<gameVars, loopVars, rng, sg, placement>>

SpecCapacity == InitCapacity /\ [][TraitsUpdate \/ ApplyChangeMemoryLength]_vars

\* ---------------------------------------------------- claims on SpecCapacity
\* C37: once a memory-capacity shock has set the agent's capacity to n, the
\* agent's memory holds at most n items, right after the shock and in every
\* later state, also when it held more than n items before the shock.
C37_MemoryWithinShockedCapacity ==
    (nFlips > 0 /\ ag.memory.set) =>
        Len(ag.memory.items) <= ag.updates_from_n_last_games

\* =============================================================== SpecAdapt
\* play_game without shocks on a population whose agents all adapt with
\* SaverFlipAfterFractionLost(frac), frac > 0: deterministic payoffs, the same
\* min_specialization for everybody, one memory length for everybody.  Agents 1
\* (a saver) and 2 (a saver or not) share the only edge; the other positions are
\* occupied by non-savers without neighbours, so that a step samples
\* MatchPositions \div 2 positions and can select the same pair more than once.
InitAdapt ==
    /\ AgentIdle
    /\ LibIdle
    /\ \E sv \in BOOLEAN, n \in 1..MaxMemoryLength, f \in 1..FracDen :
          agents = [a \in 1..MatchPositions |->
                       init_saver_agent(a = 1 \/ (a = 2 /\ sv), 0, NoHomophily, n,
                                        [kind |-> "SaverFlipAfterFractionLost", fracNum |-> f])]
    /\ state = [ref |-> 0,
                graph |-> SingleEdge(MatchPositions),
                placements |-> init_bijection(MatchPositions),
                agents |-> 1..MatchPositions,
                payoff_strategy |->
                    payoff_strategy(FALSE, DifferentialInefficient, DifferentialEfficient)]
    /\ \E n \in {0, MaxSteps + 1} : plan = GamePlan(n, ShocksDict(<<>>, <<>>))
    /\ time = 0
    /\ shocks = <<>>
    /\ shockIdx = 0
    /\ nextRef = 1
    /\ log = <<>>
    /\ pc = "for"
    /\ matches = <<>>
    /\ updates = <<>>

NextAdapt == ForStep \/ ForEnd \/ PlayStep \/ Yield

SpecAdapt == InitAdapt /\ [][NextAdapt]_vars

\* ------------------------------------------------------- claims on SpecAdapt
\* the step of play_step: from the end of the step's shocks to its yield
Stepping == pc = "shocks" /\ pc' = "yield"

\* the payoffs of pair <<a, b>> under the is_saver values held in ags
PairPayoffs(ags, a, b) ==
    LET base == payoff_matrix(state.payoff_strategy, ags[a].is_saver, ags[b].is_saver)
    IN  <<base[1] + ags[a].min_specialization, base[2] + ags[b].min_specialization>>

\* the updates the agent a received in the step just played
UpdatesOf(a) == {i \in 1..Len(updates) : updates[i].agent = a}

\* C38: within one step every payoff and every lost flag is computed from the
\* is_saver values the agents have when the step starts, before any agent is
\* updated: also for an agent that flips on an earlier update of the step and
\* is in a later match of the same step.
C38_PayoffsFromStartOfStep ==
    [][Stepping =>
          /\ Len(updates') = 2 * Len(matches')
          /\ \A j \in 1..Len(matches') :
                LET a == matches'[j][1]
                    b == matches'[j][2]
                    p == PairPayoffs(agents, a, b)
                IN  /\ updates'[2 * j - 1] =
                          [agent |-> a, payoff |-> p[1], lost_match |-> p[1] < p[2]]
                    /\ updates'[2 * j] =
                          [agent |-> b, payoff |-> p[2], lost_match |-> p[2] < p[1]]]_vars

\* an agent went into the step as a saver, flipped on its first update and then
\* received the update of a second match of the same step: the item of that
\* update records a non-saver that lost, with a saver's payoff
C38_Witness ==
    /\ pc = "yield"
    /\ \E a \in DOMAIN agents :
          /\ Cardinality(UpdatesOf(a)) = 2
          /\ ~agents[a].is_saver
          /\ Len(agents[a].memory) = 1
          /\ agents[a].memory[1].time = time
          /\ agents[a].memory[1].match_lost
          /\ ~agents[a].memory[1].properties.is_saver
          /\ agents[a].memory[1].payoff = PayoffOne - DifferentialInefficient

NumSavers(ags) == Cardinality({a \in DOMAIN ags : ags[a].is_saver})

\* C39 as stated: from one yielded state to the next the number of savers never
\* increases (so a state without savers is never left).
C39_SaversNeverIncrease ==
    [][Stepping => NumSavers(agents') <= NumSavers(agents)]_vars

\* C39, amended: an agent that is a non-saver when a step starts is never marked
\* as having lost in that step, and it ends the step as a saver only if its
\* memory already held a lost item when the step started (an item of a match whose
\* payoff was computed while it was still a saver).
C39_NonSaverFlipsOnlyOnStaleLoss ==
    [][Stepping =>
          /\ \A i \in 1..Len(updates') :
                updates'[i].lost_match => agents[updates'[i].agent].is_saver
          /\ \A a \in DOMAIN agents :
                (~agents[a].is_saver /\ agents'[a].is_saver) =>
                    Losses(agents[a].memory) > 0]_vars

\* a step in which one agent received a single update, did not lose, and came
\* out as a saver with its memory cleared: a non-saver that flipped to saver
C39_Witness ==
    /\ pc = "yield"
    /\ \E a \in DOMAIN agents :
          /\ Cardinality(UpdatesOf(a)) = 1
          /\ \A i \in UpdatesOf(a) : ~updates[i].lost_match
          /\ agents[a].is_saver
          /\ agents[a].memory = <<>>

\* ------------------------------------------ further claims on SpecDifferential
\* C40: in every reachable state the active payoff matrix satisfies what the
\* constructor of the strategy enforces, also after any sequence of differential
\* shocks: the saver/saver payoff is strictly greater than 1, and a saver's
\* payoff against a non-saver is strictly between 0 and 1.
C40_MatrixKeepsConstructorConstraints ==
    LET m == state.payoff_strategy.payoff_matrix
    IN  /\ m[<<TRUE, TRUE>>][1] > PayoffOne
        /\ m[<<TRUE, TRUE>>][2] > PayoffOne
        /\ 0 < m[<<TRUE, FALSE>>][1] /\ m[<<TRUE, FALSE>>][1] < PayoffOne
        /\ 0 < m[<<FALSE, TRUE>>][2] /\ m[<<FALSE, TRUE>>][2] < PayoffOne

====
